---- MODULE Spec2Model ----
(***************************************************************************)
(* simple-grapher: the GraphBuilder (create_graph and its callers,          *)
(* save_graph), the DataProcessor's CSV loading, the Config objects         *)
(* (from_dict, to_dict, validate, is_valid, add_source and the constructors *)
(* of LineStyleConfig, OutputConfig and DataSource), the YAMLParser and the *)
(* command line's main, as state machines.                                  *)
(*                                                                          *)
(* Python values are modelled as follows.  None is the string-free record   *)
(* [kind |-> "None"] for a style configuration and the number None (0) for *)
(* a figure handle; a dict is a function whose DOMAIN is the set of keys    *)
(* present; a list is a sequence (Python index i is TLA+ index i + 1).      *)
(***************************************************************************)
EXTENDS Integers, Sequences, FiniteSets, TLC

VARIABLES
    fig,        \* GraphBuilder.fig: None or the id of a backend figure
    ax,         \* GraphBuilder.ax: None or the id of that figure's axes
    axes,       \* what the backend holds for the axes GraphBuilder.ax names
    nfigs,      \* number of figures the rendering backend has created
    call,       \* the pending or last call: operation, arguments, result
    ncalls,     \* number of calls made on the builder
    raw,        \* the raw mapping handed to Config.from_dict
    cfg,        \* what Config.from_dict made of it
    loads,      \* number of Config.from_dict calls made
    dumped,     \* the mappings Config.to_dict returned, oldest first
    dirs,       \* the directories that exist in the filesystem
    written,    \* the image files the backend has written: path and format
    parser,     \* YAMLParser.data: None or the mapping loaded last
    yaml_files, \* the YAML files in the filesystem, by path: their content
    data_config, \* DataConfig.sources of the DataConfig that add_source extends
    log         \* the add_source calls made on it, or the loads made on the
                \* YAMLParser: arguments and outcome, oldest first

\* the state outside the builder and the Config objects
io == <<written, parser, yaml_files, data_config, log>>

vars == <<fig, ax, axes, nfigs, call, ncalls, raw, cfg, loads, dumped, dirs,
          written, parser, yaml_files, data_config, log>>

(***************************************************************************)
(* Bounds of the model.                                                     *)
(***************************************************************************)
\* longest list of in-memory sources passed to one create_graph call
MaxSources == 4
\* longest list of file sources in one configuration mapping
MaxFileSources == 3
\* longest list of sources in a call of the multi-call specification
MaxBatch == 1
\* number of calls made on one builder in the multi-call specification
MaxCalls == 2
\* number of leaf fields outside style.line_style that a raw mapping supplies
MaxOtherLeaves == 1
\* number of add_source calls made on one DataConfig
MaxAdds == 2
\* number of load_string / load_file calls made on one YAMLParser
MaxLoads == 2
\* number of save_file calls made on one YAMLParser
MaxSaves == 1
\* number of from_dict / to_dict round trips made on one mapping
MaxRoundTrips == 2

(***************************************************************************)
(* Python helpers.                                                          *)
(***************************************************************************)
\* None as a figure / axes handle
None == 0

\* dict.get(key, default)
Get(d, key, default) == IF key \in DOMAIN d THEN d[key] ELSE default

\* the empty dict {}
EmptyDict == [k \in {} |-> k]

\* every sequence over S of length at most n
SeqsUpTo(S, n) == UNION {[1..k -> S] : k \in 0..n}

(***************************************************************************)
(* Style configuration objects (config.py).                                 *)
(***************************************************************************)
NoStyle == [kind |-> "None"]

LineStyleConfig(markers, line_styles, auto_cycle, line_width, marker_size) ==
    [markers |-> markers, line_styles |-> line_styles, auto_cycle |-> auto_cycle,
     line_width |-> line_width, marker_size |-> marker_size]

StyleConfig(width, height, line_style) ==
    [kind |-> "StyleConfig", width |-> width, height |-> height,
     fonts |-> [title_size |-> 16, label_size |-> 12, legend_size |-> 10],
     grid |-> [show |-> TRUE], line_style |-> line_style]

\* a raw mapping handed over as style_config by create_graph_from_config
StyleDict(items) == [kind |-> "dict", items |-> items]

\* Python truthiness of the style_config argument: None and {} are falsy,
\* a StyleConfig instance and a non-empty dict are truthy
Truthy(style_config) ==
    \/ style_config.kind = "StyleConfig"
    \/ style_config.kind = "dict" /\ DOMAIN style_config.items # {}

\* attribute access style_config.width / .height / .line_style succeeds only
\* on a StyleConfig instance; on a dict it raises AttributeError
HasAttrs(style_config) == style_config.kind = "StyleConfig"

(***************************************************************************)
(* In-memory tables (pandas.DataFrame) and the source dicts of create_graph.*)
(***************************************************************************)
DataFrame(ncols, nrows) == [kind |-> "DataFrame", ncols |-> ncols, nrows |-> nrows]

\* a value that is not a table
NotATable == [kind |-> "str", ncols |-> 0, nrows |-> 0]

\* isinstance(df, pd.DataFrame)
IsDataFrame(df) == df.kind = "DataFrame"

\* DataFrame.empty: any axis of length 0
IsEmpty(df) == df.ncols = 0 \/ df.nrows = 0

(***************************************************************************)
(* Rendering backend (matplotlib axes).                                     *)
(***************************************************************************)
\* the backend's own property cycle: one entry that sets neither marker nor
\* line style (it cycles colours only)
DefaultCycle == << EmptyDict >>

\* plt.subplots(figsize = ...): a fresh axes
NewAxes(figsize) ==
    [figsize |-> figsize, cycle |-> DefaultCycle, custom_cycle |-> FALSE,
     idx |-> 0, artists |-> <<>>,
     title_fontsize |-> 0, label_fontsize |-> 0,
     legend |-> FALSE, grid |-> FALSE]

\* ax.set_prop_cycle(c)
SetPropCycle(a, c) == [a EXCEPT !.cycle = c, !.custom_cycle = TRUE, !.idx = 0]

\* ax.plot(x, y, **kw): a Line2D whose marker and line style are the keyword
\* given, else the current entry of the property cycle, else the backend
\* defaults (no marker, solid).  Taking an entry from an empty cycle raises.
\* src is the zero-based position of the source in the input list.
AxPlot(a, kw, src) ==
    IF Len(a.cycle) = 0
    THEN [raised |-> TRUE, ax |-> a]
    ELSE LET d == a.cycle[a.idx + 1]
             used == \E k \in DOMAIN d : k \notin DOMAIN kw
             line == [kind |-> "line", label |-> kw.label, src |-> src,
                      marker |-> IF "marker" \in DOMAIN kw THEN kw.marker
                                 ELSE Get(d, "marker", "None"),
                      linestyle |-> IF "linestyle" \in DOMAIN kw THEN kw.linestyle
                                    ELSE Get(d, "linestyle", "-"),
                      linewidth |-> kw.linewidth,
                      size |-> Get(kw, "markersize", 6)]
         IN [raised |-> FALSE,
             ax |-> [a EXCEPT !.artists = Append(@, line),
                              !.idx = IF used THEN (@ + 1) % Len(a.cycle) ELSE @]]

\* ax.bar(x, y, label = label, alpha = 0.7): bars have neither marker nor
\* line style
AxBar(a, label, src) ==
    [raised |-> FALSE,
     ax |-> [a EXCEPT !.artists = Append(@,
                [kind |-> "bar", label |-> label, src |-> src,
                 marker |-> "unset", linestyle |-> "unset",
                 linewidth |-> 0, size |-> 0])]]

\* ax.scatter(x, y, label = label, alpha = 0.7, marker = marker, s = s)
AxScatter(a, label, marker, s, src) ==
    [raised |-> FALSE,
     ax |-> [a EXCEPT !.artists = Append(@,
                [kind |-> "scatter", label |-> label, src |-> src,
                 marker |-> marker, linestyle |-> "unset",
                 linewidth |-> 0, size |-> s])]]

(***************************************************************************)
(* GraphBuilder.create_graph (graph_builder.py).                            *)
(***************************************************************************)
supported_types == <<"line", "bar", "scatter">>

\* mutant of IsSupported: the chart type is not validated
IsSupported_AcceptAll(graph_type) == graph_type = graph_type

\* graph_type in self.supported_types
IsSupported(graph_type) == \E k \in 1..Len(supported_types) : supported_types[k] = graph_type

\* the inner loop of lines 82-83: one (marker, line style) entry per line style
RECURSIVE InnerLoop(_, _, _, _)
InnerLoop(marker, line_styles, j, combined_styles) ==
    IF j > Len(line_styles) THEN combined_styles
    ELSE InnerLoop(marker, line_styles, j + 1,
                   Append(combined_styles,
                          [marker |-> marker, linestyle |-> line_styles[j]]))

\* mutant of CombinedStyles: line styles outside, markers inside
RECURSIVE CombinedStyles_StyleMajor(_, _, _, _)
CombinedStyles_StyleMajor(markers, line_styles, k, combined_styles) ==
    IF k > Len(line_styles) THEN combined_styles
    ELSE CombinedStyles_StyleMajor(markers, line_styles, k + 1,
            combined_styles \o [j \in 1..Len(markers) |->
                                  [marker |-> markers[j], linestyle |-> line_styles[k]]])

\* the outer loop of lines 80-83: markers outside, line styles inside
RECURSIVE CombinedStyles(_, _, _, _)
CombinedStyles(markers, line_styles, k, combined_styles) ==
    IF k > Len(markers) THEN combined_styles
    ELSE CombinedStyles(markers, line_styles, k + 1,
                        InnerLoop(markers[k], line_styles, 1, combined_styles))

\* mutant of CustomCycler: without markers the cycle is the solid style only
CustomCycler_SolidOnly(line_style) ==
    IF Len(line_style.markers) = 0
    THEN << [linestyle |-> "-"] >>
    ELSE CombinedStyles(line_style.markers, line_style.line_styles, 1, <<>>)

\* the cycler built at lines 71-89
CustomCycler(line_style) ==
    IF Len(line_style.markers) = 0
    THEN [k \in 1..Len(line_style.line_styles) |->
              [linestyle |-> line_style.line_styles[k]]]
    ELSE CombinedStyles(line_style.markers, line_style.line_styles, 1, <<>>)

\* mutant of SetUpCycle: the cycle is installed for every chart type
SetUpCycle_AnyType(a, graph_type, style_config) ==
    IF Truthy(style_config) /\ style_config.line_style.auto_cycle
    THEN SetPropCycle(a, CustomCycler(style_config.line_style))
    ELSE a

\* lines 63-92: the property cycle is installed only for a line chart with a
\* truthy style configuration whose auto_cycle is set
SetUpCycle(a, graph_type, style_config) ==
    IF Truthy(style_config) /\ style_config.line_style.auto_cycle /\ graph_type = "line"
    THEN SetPropCycle(a, CustomCycler(style_config.line_style))
    ELSE a

\* mutant of PlotLine: manual mode takes the marker at the line style's index
PlotLine_SharedIndex(a, i, label, style_config) ==
    LET ls == style_config.line_style
        j == IF Len(ls.line_styles) > 0 THEN i % Len(ls.line_styles) ELSE i
    IN IF Truthy(style_config) /\ ~ls.auto_cycle /\ Len(ls.markers) > 0
       THEN AxPlot(a, [label |-> label,
                       linestyle |-> IF Len(ls.line_styles) > 0
                                     THEN ls.line_styles[j + 1] ELSE "-",
                       linewidth |-> ls.line_width,
                       marker |-> ls.markers[(j % Len(ls.markers)) + 1],
                       markersize |-> ls.marker_size], i)
       ELSE AxPlot(a, [label |-> label, linewidth |-> 2], i)

\* lines 122-164: one series of a line chart; i is the zero-based enumerate index
PlotLine(a, i, label, style_config) ==
    IF Truthy(style_config) /\ style_config.line_style.auto_cycle
    THEN AxPlot(a, [label |-> label,
                    linewidth |-> style_config.line_style.line_width,
                    markersize |-> style_config.line_style.marker_size], i)
    ELSE LET ls == style_config.line_style
             hasMarker == Truthy(style_config) /\ Len(ls.markers) > 0
             linestyle == IF Truthy(style_config) /\ Len(ls.line_styles) > 0
                          THEN ls.line_styles[(i % Len(ls.line_styles)) + 1]
                          ELSE "-"
             linewidth == IF Truthy(style_config) THEN ls.line_width ELSE 2
         IN IF hasMarker
            THEN AxPlot(a, [label |-> label, linestyle |-> linestyle,
                            linewidth |-> linewidth,
                            marker |-> ls.markers[(i % Len(ls.markers)) + 1],
                            markersize |-> ls.marker_size], i)
            ELSE AxPlot(a, [label |-> label, linestyle |-> linestyle,
                            linewidth |-> linewidth], i)

\* mutant of PlotScatter: without markers the series gets no marker
PlotScatter_NoDefault(a, i, label, style_config) ==
    LET ls == style_config.line_style
        marker == IF Truthy(style_config) /\ Len(ls.markers) > 0
                  THEN ls.markers[(i % Len(ls.markers)) + 1]
                  ELSE "None"
        s == IF Truthy(style_config) THEN ls.marker_size * ls.marker_size ELSE 36
    IN AxScatter(a, label, marker, s, i)

\* lines 167-188: one series of a scatter chart
PlotScatter(a, i, label, style_config) ==
    LET ls == style_config.line_style
        marker == IF Truthy(style_config) /\ Len(ls.markers) > 0
                  THEN ls.markers[(i % Len(ls.markers)) + 1]
                  ELSE "o"
        s == IF Truthy(style_config) THEN ls.marker_size * ls.marker_size ELSE 36
    IN AxScatter(a, label, marker, s, i)

\* lines 99-188: the loop over enumerate(data_sources), from Python index i.
\* A source without both keys, with a non-table value or with an empty table
\* is skipped; df.columns[1] of a one-column table raises IndexError.
RECURSIVE PlotLoop(_, _, _, _, _)
PlotLoop(a, data_sources, i, graph_type, style_config) ==
    IF i >= Len(data_sources) THEN [raised |-> FALSE, ax |-> a]
    ELSE LET source == data_sources[i + 1]
             skip == PlotLoop(a, data_sources, i + 1, graph_type, style_config)
         IN IF "dataframe" \notin DOMAIN source \/ "label" \notin DOMAIN source
            THEN skip
            ELSE IF ~IsDataFrame(source.dataframe) THEN skip
            ELSE IF IsEmpty(source.dataframe) THEN skip
            ELSE IF source.dataframe.ncols < 2 THEN [raised |-> TRUE, ax |-> a]
            ELSE LET r == CASE graph_type = "line" ->
                                   PlotLine(a, i, source.label, style_config)
                            [] graph_type = "bar" -> AxBar(a, source.label, i)
                            [] OTHER ->
                                   PlotScatter(a, i, source.label, style_config)
                 IN IF r.raised THEN r
                    ELSE PlotLoop(r.ax, data_sources, i + 1, graph_type, style_config)

\* lines 190-195: title, axis labels, legend and grid
Customize(a) ==
    [a EXCEPT !.title_fontsize = 16, !.label_fontsize = 12,
              !.legend = TRUE, !.grid = TRUE]

\* create_graph with the cycle position carried over from the last call
create_graph_KeepsCyclePosition(b, data_sources, graph_type, style_config) ==
    IF ~IsSupported(graph_type) THEN [b EXCEPT !.result = None]
    ELSE IF Len(data_sources) = 0 THEN [b EXCEPT !.result = None]
    ELSE IF Truthy(style_config) /\ ~HasAttrs(style_config)
         THEN [b EXCEPT !.result = None]
    ELSE LET figsize == IF Truthy(style_config)
                        THEN <<style_config.width, style_config.height>>
                        ELSE <<10, 6>>
             id == b.nfigs + 1
             a1 == SetUpCycle(NewAxes(figsize), graph_type, style_config)
             a0 == [a1 EXCEPT !.idx = IF Len(a1.cycle) > 0
                                      THEN b.axes.idx % Len(a1.cycle) ELSE 0]
             r == PlotLoop(a0, data_sources, 0, graph_type, style_config)
         IN IF r.raised
            THEN [fig |-> id, ax |-> id, axes |-> r.ax, nfigs |-> id, result |-> None]
            ELSE [fig |-> id, ax |-> id, axes |-> Customize(r.ax), nfigs |-> id,
                  result |-> id]

\* create_graph as a function of the builder b = [fig, ax, axes, nfigs] and the
\* arguments: the builder after the call and the value returned
create_graph(b, data_sources, graph_type, style_config) ==
    IF ~IsSupported(graph_type) THEN [b EXCEPT !.result = None]
    ELSE IF Len(data_sources) = 0 THEN [b EXCEPT !.result = None]
    ELSE IF Truthy(style_config) /\ ~HasAttrs(style_config)
         THEN \* line 60 raises AttributeError before plt.subplots
              [b EXCEPT !.result = None]
    ELSE LET figsize == IF Truthy(style_config)
                        THEN <<style_config.width, style_config.height>>
                        ELSE <<10, 6>>
             id == b.nfigs + 1
             a0 == SetUpCycle(NewAxes(figsize), graph_type, style_config)
             r == PlotLoop(a0, data_sources, 0, graph_type, style_config)
         IN IF r.raised
            THEN [fig |-> id, ax |-> id, axes |-> r.ax, nfigs |-> id, result |-> None]
            ELSE [fig |-> id, ax |-> id, axes |-> Customize(r.ax), nfigs |-> id,
                  result |-> id]

(***************************************************************************)
(* DataProcessor (data_processor.py).  The file system the loader reads is  *)
(* a fixed set of CSV files: columns and data rows of each, none when the   *)
(* path does not exist, zero bytes when the file is empty.                  *)
(***************************************************************************)
NoFile == [exists |-> FALSE, bytes |-> 0, ncols |-> 0, nrows |-> 0]

FileSystem(file_path) ==
    CASE file_path = "a.csv"    -> [exists |-> TRUE, bytes |-> 20, ncols |-> 2, nrows |-> 3]
      [] file_path = "b.csv"    -> [exists |-> TRUE, bytes |-> 30, ncols |-> 3, nrows |-> 2]
      [] file_path = "one.csv"  -> [exists |-> TRUE, bytes |-> 10, ncols |-> 1, nrows |-> 2]
      [] file_path = "hdr.csv"  -> [exists |-> TRUE, bytes |-> 4, ncols |-> 2, nrows |-> 0]
      [] file_path = "zero.csv" -> [exists |-> TRUE, bytes |-> 0, ncols |-> 0, nrows |-> 0]
      [] OTHER -> NoFile

\* the value None where a table is expected
NoTable == [kind |-> "None", ncols |-> 0, nrows |-> 0]

\* load_csv: None when pd.read_csv raises (missing file, empty file) or when
\* the table has fewer than two columns; else the first two columns
load_csv(file_path) ==
    LET f == FileSystem(file_path)
    IN IF ~f.exists THEN NoTable
       ELSE IF f.bytes = 0 THEN NoTable
       ELSE IF f.ncols < 2 THEN NoTable
       ELSE DataFrame(2, f.nrows)

\* dataframes[label] = df on an insertion-ordered dict, kept as a sequence of
\* items: an existing key keeps its place and takes the new value
DictSet(items, label, df) ==
    IF \E k \in 1..Len(items) : items[k].label = label
    THEN [k \in 1..Len(items) |->
              IF items[k].label = label THEN [label |-> label, dataframe |-> df]
              ELSE items[k]]
    ELSE Append(items, [label |-> label, dataframe |-> df])

\* load_multiple_csvs: the loop of lines 76-85 from TLA+ index k
RECURSIVE load_multiple_csvs(_, _, _)
load_multiple_csvs(sources, k, dataframes) ==
    IF k > Len(sources) THEN dataframes
    ELSE LET source == sources[k]
             file_path == Get(source, "file", "")
             label == Get(source, "label", file_path)
             df == load_csv(file_path)
         IN IF file_path # "" /\ df # NoTable
            THEN load_multiple_csvs(sources, k + 1, DictSet(dataframes, label, df))
            ELSE load_multiple_csvs(sources, k + 1, dataframes)

(***************************************************************************)
(* GraphBuilder.create_graph_from_dataframes / create_graph_from_config.    *)
(***************************************************************************)
\* lines 229-232: the dict's items, in order, as source dicts
SourcesOf(dataframes) ==
    [k \in 1..Len(dataframes) |->
        [dataframe |-> dataframes[k].dataframe, label |-> dataframes[k].label]]

create_graph_from_dataframes(b, dataframes, graph_type, style_config) ==
    create_graph(b, SourcesOf(dataframes), graph_type, style_config)

\* the arguments create_graph_from_config extracts from a configuration mapping
ConfigGraphType(config) == Get(Get(config, "graph", EmptyDict), "type", "line")

ConfigStyle(config) == StyleDict(Get(Get(config, "graph", EmptyDict), "style", EmptyDict))

ConfigSources(config) == Get(Get(config, "data", EmptyDict), "sources", <<>>)

create_graph_from_config(b, config) ==
    IF Len(ConfigSources(config)) = 0 THEN [b EXCEPT !.result = None]
    ELSE LET dataframes == load_multiple_csvs(ConfigSources(config), 1, <<>>)
         IN IF Len(dataframes) = 0 THEN [b EXCEPT !.result = None]
            ELSE create_graph_from_dataframes(b, dataframes, ConfigGraphType(config),
                                              ConfigStyle(config))

(***************************************************************************)
(* Config.from_dict (config.py).  The resolved Config is a nested record   *)
(* laid out as Config.to_dict lays it out.  Text that the code takes apart  *)
(* (a file reference) is a sequence of characters.  An axis bound is Num(v) *)
(* or NoneValue.                                                            *)
(***************************************************************************)
NoneValue == [none |-> TRUE, v |-> 0]

Num(v) == [none |-> FALSE, v |-> v]

valid_markers ==
    <<"o", "s", "^", "v", "<", ">", "p", "*", "+", "x", "D", "h", "H",
      "1", "2", "3", "4", "|", "_", ".", ",">>

valid_line_styles == <<"-", "--", "-.", ":">>

valid_formats == <<"png", "jpg", "jpeg", "svg", "pdf">>

\* x in list
InList(x, list) == \E k \in 1..Len(list) : list[k] = x

\* str.lower() on the format strings of the model
Lower(str) ==
    CASE str = "SVG" -> "svg"
      [] str = "PNG" -> "png"
      [] str = "Pdf" -> "pdf"
      [] OTHER -> str

\* the check with the line styles left unchecked
LineStyleRaises_MarkersOnly(ls) ==
    \/ \E k \in 1..Len(ls.markers) : ~InList(ls.markers[k], valid_markers)
    \/ ls.line_width <= 0
    \/ ls.marker_size <= 0

\* the check with zero accepted as a width and as a size
LineStyleRaises_ZeroAllowed(ls) ==
    \/ \E k \in 1..Len(ls.markers) : ~InList(ls.markers[k], valid_markers)
    \/ \E k \in 1..Len(ls.line_styles) : ~InList(ls.line_styles[k], valid_line_styles)
    \/ ls.line_width < 0
    \/ ls.marker_size < 0

\* LineStyleConfig.__post_init__: TRUE when it raises ValueError
LineStyleRaises(ls) ==
    \/ \E k \in 1..Len(ls.markers) : ~InList(ls.markers[k], valid_markers)
    \/ \E k \in 1..Len(ls.line_styles) : ~InList(ls.line_styles[k], valid_line_styles)
    \/ ls.line_width <= 0
    \/ ls.marker_size <= 0

\* OutputConfig.__post_init__: TRUE when it raises ValueError
OutputRaises(out) == ~InList(Lower(out.format), valid_formats)

\* index of the last occurrence of ch in text, 0 when there is none
LastIndex(text, ch, k) ==
    LET at == {j \in 1..k : text[j] = ch}
    IN IF at = {} THEN 0 ELSE CHOOSE j \in at : \A o \in at : o <= j

\* text.split("/") without the empty and the "." components: a component
\* starts after a slash (or at the start) and runs up to the next slash
PathParts(text) ==
    LET starts == {i \in 1..Len(text) :
                      text[i] # "/" /\ (i = 1 \/ text[i - 1] = "/")}
        stop(i) == IF \E j \in i..Len(text) : text[j] = "/"
                   THEN (CHOOSE j \in i..Len(text) :
                            text[j] = "/" /\ \A m \in i..j - 1 : text[m] # "/") - 1
                   ELSE Len(text)
        nth(n) == CHOOSE i \in starts : Cardinality({j \in starts : j < i}) = n - 1
        all == [n \in 1..Cardinality(starts) |-> SubSeq(text, nth(n), stop(nth(n)))]
        NotDot(c) == c # <<".">>
    IN SelectSeq(all, NotDot)

\* Path(text): whether it starts at the root, and its components
PurePath(text) ==
    [anchor |-> Len(text) > 0 /\ text[1] = "/",
     parts |-> PathParts(text)]

\* the last element of a list of path components, empty when there is none
LastPart(parts) == IF parts = <<>> THEN <<>> ELSE parts[Len(parts)]

\* Path(file).name: the last component of the path
PathName(file) == LastPart(PurePath(file).parts)

\* name without the suffix that starts at its i-th character; a dot that
\* leads or ends the name (or no dot, i = 0) starts no suffix
CutSuffix(name, i) ==
    IF 1 < i /\ i < Len(name) THEN SubSeq(name, 1, i - 1) ELSE name

\* the stem cut at the first dot of the name instead of the last
StemOf_FirstDot(name) ==
    CutSuffix(name,
              IF \E i \in 1..Len(name) : name[i] = "."
              THEN CHOOSE i \in 1..Len(name) :
                      name[i] = "." /\ \A j \in 1..i - 1 : name[j] # "."
              ELSE 0)

\* the stem of a file name: the name without its last suffix
StemOf(name) == CutSuffix(name, LastIndex(name, ".", Len(name)))

\* Path(file).stem
PathStem(file) == StemOf(PathName(file))

\* a raised exception, as the result of an operation
Raise(error) == [status |-> "raised", error |-> error]

\* the label None (a label is text, a sequence of characters; no text equals
\* this one)
NoneLabel == <<"None">>

\* hasattr(v, "get"): v is a mapping and neither None nor a number
IsMapping(v) == DOMAIN v # DOMAIN NoneValue

\* the constructor with a label making up for a missing file
DataSource_LabelRescues(file, label) ==
    IF Len(file) = 0 /\ (Len(label) = 0 \/ label = NoneLabel)
    THEN [raised |-> TRUE, error |-> "ValueError", file |-> file, label |-> label]
    ELSE [raised |-> FALSE, error |-> "", file |-> file,
          label |-> IF Len(label) = 0 \/ label = NoneLabel THEN PathStem(file)
                    ELSE label]

\* DataSource(file, label).__post_init__
DataSource(file, label) ==
    IF Len(file) = 0
    THEN [raised |-> TRUE, error |-> "ValueError", file |-> file, label |-> label]
    ELSE [raised |-> FALSE, error |-> "", file |-> file,
          label |-> IF Len(label) = 0 \/ label = NoneLabel THEN PathStem(file)
                    ELSE label]

\* self.sources.append(src), unless the constructor of src raised
Appended(sources, src) ==
    [raised |-> src.raised, error |-> src.error,
     sources |-> IF src.raised THEN sources
                 ELSE Append(sources, [file |-> src.file, label |-> src.label])]

\* DataConfig.add_source(file, label): the sources after the call
add_source(sources, file, label) ==
    Appended(sources,
             DataSource(file, IF label = NoneLabel THEN PathStem(file) ELSE label))

\* the body of the loop of lines 288-292 on the entry d of data.sources:
\* file = d.get("file", ""), label = d.get("label")
AddSource(sources, d) ==
    IF ~IsMapping(d)
    THEN [raised |-> TRUE, error |-> "AttributeError", sources |-> sources]
    ELSE add_source(sources, Get(d, "file", <<>>), Get(d, "label", NoneLabel))

\* the loop of lines 288-292 from TLA+ index k
RECURSIVE AddSources(_, _, _)
AddSources(data_sources, k, sources) ==
    IF k > Len(data_sources)
    THEN [raised |-> FALSE, error |-> "", sources |-> sources]
    ELSE LET r == AddSource(sources, data_sources[k])
         IN IF r.raised THEN r ELSE AddSources(data_sources, k + 1, r.sources)

\* d.get(key, {})
GetMap(d, key) == Get(d, key, EmptyDict)

\* the defaults from_dict passes for an absent markers / line_styles key
FromDictMarkers == <<"o", "s", "^", "v", "<", ">", "p", "*", "+", "x", "D", "h">>

FromDictLineStyles == <<"-", "--", "-.", ":">>

\* the default save path "./output/graph.png"
DefaultSavePath ==
    <<".", "/", "o", "u", "t", "p", "u", "t", "/", "g", "r", "a", "p", "h",
      ".", "p", "n", "g">>

\* the axis section of lines 235-244
AxisFromDict(axis_data) ==
    [label |-> Get(axis_data, "label", ""),
     min |-> Get(axis_data, "min", NoneValue),
     max |-> Get(axis_data, "max", NoneValue)]

\* the LineStyleConfig arguments of lines 262-281
LineStyleFromDict(ls_data) ==
    [markers |-> Get(ls_data, "markers", FromDictMarkers),
     line_styles |-> Get(ls_data, "line_styles", FromDictLineStyles),
     auto_cycle |-> Get(ls_data, "auto_cycle", TRUE),
     line_width |-> Get(ls_data, "line_width", 2),
     marker_size |-> Get(ls_data, "marker_size", 6)]

\* lines 232-281: some .get() of the graph section is called on a value that
\* is no mapping (AttributeError)
GraphSectionMalformed(graph_data) ==
    \/ ~IsMapping(graph_data)
    \/ ~IsMapping(GetMap(graph_data, "x_axis"))
    \/ ~IsMapping(GetMap(graph_data, "y_axis"))
    \/ ~IsMapping(GetMap(graph_data, "style"))
    \/ ~IsMapping(GetMap(GetMap(graph_data, "style"), "fonts"))
    \/ ~IsMapping(GetMap(GetMap(graph_data, "style"), "grid"))
    \/ ~IsMapping(GetMap(GetMap(graph_data, "style"), "line_style"))

\* Config.from_dict: the Config, or the first exception raised on the way
\* (graph section, then LineStyleConfig, then data sources, then output)
from_dict(data) ==
    LET graph_data == GetMap(data, "graph")
        style_data == GetMap(graph_data, "style")
        line_style == LineStyleFromDict(GetMap(style_data, "line_style"))
        data_section == GetMap(data, "data")
        added == AddSources(Get(data_section, "sources", <<>>), 1, <<>>)
        output_data == GetMap(data, "output")
        output == [format |-> Get(output_data, "format", "png"),
                   dpi |-> Get(output_data, "dpi", 300),
                   save_path |-> Get(output_data, "save_path", DefaultSavePath)]
    IN IF GraphSectionMalformed(graph_data) THEN Raise("AttributeError")
       ELSE IF LineStyleRaises(line_style) THEN Raise("ValueError")
       ELSE IF ~IsMapping(data_section) THEN Raise("AttributeError")
       ELSE IF added.raised THEN Raise(added.error)
       ELSE IF ~IsMapping(output_data) THEN Raise("AttributeError")
       ELSE IF OutputRaises(output) THEN Raise("ValueError")
       ELSE [status |-> "ok",
             config |->
               [graph |->
                  [title |-> Get(graph_data, "title", ""),
                   x_axis |-> AxisFromDict(GetMap(graph_data, "x_axis")),
                   y_axis |-> AxisFromDict(GetMap(graph_data, "y_axis")),
                   style |->
                     [width |-> Get(style_data, "width", 10),
                      height |-> Get(style_data, "height", 10),
                      fonts |->
                        [title_size |-> Get(GetMap(style_data, "fonts"), "title_size", 16),
                         label_size |-> Get(GetMap(style_data, "fonts"), "label_size", 12),
                         legend_size |-> Get(GetMap(style_data, "fonts"), "legend_size", 10)],
                      grid |-> [show |-> Get(GetMap(style_data, "grid"), "show", TRUE)],
                      line_style |-> line_style]],
                data |-> [sources |-> added.sources],
                output |-> output]]

\* Config(): every dataclass default
DefaultConfig ==
    [graph |->
       [title |-> "",
        x_axis |-> [label |-> "", min |-> NoneValue, max |-> NoneValue],
        y_axis |-> [label |-> "", min |-> NoneValue, max |-> NoneValue],
        style |->
          [width |-> 10, height |-> 10,
           fonts |-> [title_size |-> 16, label_size |-> 12, legend_size |-> 10],
           grid |-> [show |-> TRUE],
           line_style |-> [markers |-> <<>>, line_styles |-> <<"-">>,
                           auto_cycle |-> TRUE, line_width |-> 2, marker_size |-> 6]]],
     data |-> [sources |-> <<>>],
     output |-> [format |-> "png", dpi |-> 300, save_path |-> DefaultSavePath]]

\* to_dict emitting the height under "width" and the width under "height"
to_dict_WidthHeightSwapped(config) ==
    [graph |->
       [title |-> config.graph.title,
        x_axis |-> config.graph.x_axis,
        y_axis |-> config.graph.y_axis,
        style |->
          [width |-> config.graph.style.height,
           height |-> config.graph.style.width,
           fonts |-> config.graph.style.fonts,
           grid |-> config.graph.style.grid,
           line_style |-> config.graph.style.line_style]],
     data |-> config.data,
     output |-> config.output]

\* to_dict emitting None for the upper bound of the y axis
to_dict_YMaxDropped(config) ==
    [graph |->
       [title |-> config.graph.title,
        x_axis |-> config.graph.x_axis,
        y_axis |-> [label |-> config.graph.y_axis.label,
                    min |-> config.graph.y_axis.min,
                    max |-> NoneValue],
        style |-> config.graph.style],
     data |-> config.data,
     output |-> config.output]

\* Config.to_dict: the mapping built key by key from the fields of the Config
to_dict(config) ==
    [graph |->
       [title |-> config.graph.title,
        x_axis |-> [label |-> config.graph.x_axis.label,
                    min |-> config.graph.x_axis.min,
                    max |-> config.graph.x_axis.max],
        y_axis |-> [label |-> config.graph.y_axis.label,
                    min |-> config.graph.y_axis.min,
                    max |-> config.graph.y_axis.max],
        style |->
          [width |-> config.graph.style.width,
           height |-> config.graph.style.height,
           fonts |-> [title_size |-> config.graph.style.fonts.title_size,
                      label_size |-> config.graph.style.fonts.label_size,
                      legend_size |-> config.graph.style.fonts.legend_size],
           grid |-> [show |-> config.graph.style.grid.show],
           line_style |->
             [markers |-> config.graph.style.line_style.markers,
              line_styles |-> config.graph.style.line_style.line_styles,
              auto_cycle |-> config.graph.style.line_style.auto_cycle,
              line_width |-> config.graph.style.line_style.line_width,
              marker_size |-> config.graph.style.line_style.marker_size]]],
     data |->
       [sources |->
          [k \in 1..Len(config.data.sources) |->
              [file |-> config.data.sources[k].file,
               label |-> config.data.sources[k].label]]],
     output |-> [format |-> config.output.format,
                 dpi |-> config.output.dpi,
                 save_path |-> config.output.save_path]]

(***************************************************************************)
(* Config.validate and Config.is_valid (config.py), over a filesystem: the   *)
(* directories that exist (they grow when validate creates one), the files  *)
(* that exist, and the directories in which nothing can be created.         *)
(***************************************************************************)
\* the longest file name the filesystem accepts; stat() of a longer one
\* raises OSError (ENAMETOOLONG), which Path.exists() does not swallow
NAME_MAX == 255

\* path.parent
Parent(path) ==
    IF path.parts = <<>> THEN path
    ELSE [path EXCEPT !.parts = SubSeq(@, 1, Len(@) - 1)]

\* the path, its parent, its parent's parent, ...
Ancestors(path) ==
    {[path EXCEPT !.parts = SubSeq(@, 1, k)] : k \in 0..Len(path.parts)}

\* the directories before any call: ".", "/", "d" and the read-only "/ro"
InitialDirs ==
    {[anchor |-> FALSE, parts |-> <<>>], [anchor |-> TRUE, parts |-> <<>>],
     [anchor |-> FALSE, parts |-> << <<"d">> >>],
     [anchor |-> TRUE, parts |-> << <<"r", "o">> >>]}

ReadOnlyDirs == {[anchor |-> TRUE, parts |-> << <<"r", "o">> >>]}

\* the files: "d/a.c" and "b.c"
ExistingFiles ==
    {[anchor |-> FALSE, parts |-> << <<"d">>, <<"a", ".", "c">> >>],
     [anchor |-> FALSE, parts |-> << <<"b", ".", "c">> >>]}

NameTooLong(path) == \E k \in 1..Len(path.parts) : Len(path.parts[k]) > NAME_MAX

\* path.exists(): "yes", "no", or "OSError" when stat() raises
PathExists(path, present) ==
    IF NameTooLong(path) THEN "OSError"
    ELSE IF path \in present \cup ExistingFiles THEN "yes"
    ELSE "no"

\* path.mkdir(parents=True, exist_ok=True) of a directory that does not
\* exist: the directories afterwards, or raised (OSError) when a component is
\* too long, an ancestor is a file, or the nearest existing ancestor is
\* read-only
Mkdir(path, present) ==
    LET existing == Ancestors(path) \cap present
        nearest == CHOOSE a \in existing :
                      \A o \in existing : Len(o.parts) <= Len(a.parts)
    IN IF \/ NameTooLong(path)
          \/ Ancestors(path) \cap ExistingFiles # {}
          \/ nearest \in ReadOnlyDirs
       THEN [raised |-> TRUE, dirs |-> present]
       ELSE [raised |-> FALSE, dirs |-> present \cup Ancestors(path)]

\* the loop of lines 378-380 from TLA+ index k (enumerate index k - 1)
RECURSIVE SourceErrors(_, _, _, _)
SourceErrors(sources, k, present, errors) ==
    IF k > Len(sources) THEN [raised |-> FALSE, errors |-> errors]
    ELSE LET found == PathExists(PurePath(sources[k].file), present)
         IN IF found = "OSError" THEN [raised |-> TRUE, errors |-> errors]
            ELSE SourceErrors(sources, k + 1, present,
                    IF found = "no"
                    THEN Append(errors, [msg |-> "File does not exist",
                                         source |-> k - 1, file |-> sources[k].file])
                    ELSE errors)

\* Config.validate: the list of errors and the directories afterwards, or the
\* exception raised
validate(config, present) ==
    LET e1 == IF config.graph.title = ""
              THEN << [msg |-> "Graph title is required"] >> ELSE <<>>
        e2 == IF Len(config.data.sources) = 0
              THEN Append(e1, [msg |-> "At least one data source is required"])
              ELSE e1
        e3 == SourceErrors(config.data.sources, 1, present, e2)
        parent == Parent(PurePath(config.output.save_path))
        found == PathExists(parent, present)
        made == Mkdir(parent, present)
    IN IF e3.raised \/ found = "OSError"
       THEN [status |-> "raised", error |-> "OSError", dirs |-> present]
       ELSE IF found = "yes"
       THEN [status |-> "ok", errors |-> e3.errors, dirs |-> present]
       ELSE IF made.raised
       THEN [status |-> "ok", dirs |-> present,
             errors |-> Append(e3.errors, [msg |-> "Cannot create output directory"])]
       ELSE [status |-> "ok", errors |-> e3.errors, dirs |-> made.dirs]

\* Config.is_valid: len(self.validate()) == 0
is_valid(config, present) ==
    LET v == validate(config, present)
    IN IF v.status = "raised" THEN v
       ELSE [status |-> "ok", valid |-> Len(v.errors) = 0, dirs |-> v.dirs]

(***************************************************************************)
(* GraphBuilder.save_graph (graph_builder.py), over the same filesystem.    *)
(* A format is text; format None is NoneFormat.                             *)
(***************************************************************************)
NoneFormat == <<"None">>

\* str.lower() on one character
LowerChar(c) ==
    CASE c = "P" -> "p"
      [] c = "N" -> "n"
      [] c = "G" -> "g"
      [] c = "D" -> "d"
      [] c = "F" -> "f"
      [] c = "S" -> "s"
      [] c = "V" -> "v"
      [] OTHER -> c

\* str.lower()
LowerText(text) == [k \in 1..Len(text) |-> LowerChar(text[k])]

\* the part of name from its i-th character on, when a suffix starts there
SuffixFrom(name, i) ==
    IF 1 < i /\ i < Len(name) THEN SubSeq(name, i, Len(name)) ELSE <<>>

\* Path(p).suffix: from the last dot of the name on, the dot included
PathSuffix(file_path) ==
    SuffixFrom(PathName(file_path), LastIndex(PathName(file_path), ".", Len(PathName(file_path))))

\* suffix[1:]
Tail1(text) == IF Len(text) = 0 THEN <<>> ELSE SubSeq(text, 2, Len(text))

\* lines 318-321: the format handed to savefig
InferredFormat(output_path, format) ==
    IF format = NoneFormat
    THEN IF Len(Tail1(PathSuffix(output_path))) = 0 THEN <<"p", "n", "g">>
         ELSE LowerText(Tail1(PathSuffix(output_path)))
    ELSE format

\* the formats the backend's savefig can write
backend_formats ==
    {<<"p", "n", "g">>, <<"p", "d", "f">>, <<"s", "v", "g">>, <<"j", "p", "g">>,
     <<"j", "p", "e", "g">>, <<"e", "p", "s">>, <<"p", "s">>, <<"t", "i", "f">>}

\* output_path.parent.mkdir(parents=True, exist_ok=True)
MkdirExistOk(path, present) ==
    IF path \in present THEN [raised |-> FALSE, dirs |-> present]
    ELSE Mkdir(path, present)

\* figure.savefig(output_path, format=format): the backend lower-cases the
\* format, raises ValueError on one it cannot write and OSError when the
\* file cannot be created
SaveFig(path, format, present, files) ==
    IF LowerText(format) \notin backend_formats
    THEN [raised |-> TRUE, files |-> files]
    ELSE IF Parent(path) \in ReadOnlyDirs \/ path \in present \/ NameTooLong(path)
    THEN [raised |-> TRUE, files |-> files]
    ELSE [raised |-> FALSE,
          files |-> {f \in files : f.path # path}
                       \cup {[path |-> path, format |-> LowerText(format)]}]

\* GraphBuilder.save_graph(figure, output_path, dpi, format): what it
\* returns or raises, the format handed to savefig (NoneFormat when savefig is
\* not reached), the directories and the image files after the call
save_graph(figure, output_path, format, present, files) ==
    IF figure = None
    THEN [status |-> "ok", value |-> FALSE, savefig |-> NoneFormat,
          dirs |-> present, files |-> files]
    ELSE LET made == MkdirExistOk(Parent(PurePath(output_path)), present)
             saved == SaveFig(PurePath(output_path),
                              InferredFormat(output_path, format), made.dirs, files)
         IN IF made.raised
            THEN [status |-> "raised", error |-> "OSError", savefig |-> NoneFormat,
                  dirs |-> present, files |-> files]
            ELSE [status |-> "ok", value |-> ~saved.raised,
                  savefig |-> InferredFormat(output_path, format),
                  dirs |-> made.dirs, files |-> saved.files]

(***************************************************************************)
(* YAMLParser (utils/yaml_parser.py).  A parsed value is a record tagged    *)
(* with its kind; the keys of a parsed mapping are texts.                   *)
(***************************************************************************)
\* YAMLParser.data before any load
NoData == [kind |-> "None"]

\* the values a document parses to: int, list, dict (keys are texts)
IntV(n) == [kind |-> "int", v |-> n]
ListV(items) == [kind |-> "list", items |-> items]
DictV(items) == [kind |-> "dict", items |-> items]

\* yaml.safe_load on a text: the value it returns, or the error of the
\* scanner or parser (both are yaml.YAMLError)
SafeLoad(text) ==
    CASE text = "a: 1"      -> [raised |-> FALSE, value |-> DictV(<<"a">> :> IntV(1))]
      [] text = "a: {b: 2}" -> [raised |-> FALSE,
                                value |-> DictV(<<"a">> :> DictV(<<"b">> :> IntV(2)))]
      [] text = "b: [3]"    -> [raised |-> FALSE,
                                value |-> DictV(<<"b">> :> ListV(<<IntV(3)>>))]
      [] text = "{}"        -> [raised |-> FALSE, value |-> DictV(EmptyDict)]
      [] text = "- 1"       -> [raised |-> FALSE, value |-> ListV(<<IntV(1)>>)]
      [] text = "5"         -> [raised |-> FALSE, value |-> IntV(5)]
      [] text = ""          -> [raised |-> FALSE, value |-> NoData]
      [] text = "a: ["      -> [raised |-> TRUE, value |-> NoData]
      [] text = "a: b: c"   -> [raised |-> TRUE, value |-> NoData]
      [] text = "a: 2\n"    -> [raised |-> FALSE, value |-> DictV(<<"a">> :> IntV(2))]
      [] text = "- 1\n"     -> [raised |-> FALSE, value |-> ListV(<<IntV(1)>>)]
      [] text = "{}\n"      -> [raised |-> FALSE, value |-> DictV(EmptyDict)]
      [] text = "null\n...\n" -> [raised |-> FALSE, value |-> NoData]

\* the try block of load_string and load_file once the text is at hand
LoadParsed(data, loaded) ==
    IF loaded.raised \/ loaded.value.kind # "dict"
    THEN [status |-> "raised", error |-> "YAMLError", data |-> data]
    ELSE [status |-> "ok", value |-> loaded.value, data |-> loaded.value]

load_string(data, yaml_string) == LoadParsed(data, SafeLoad(yaml_string))

\* files maps the paths of the files that exist to their content: whether it
\* is UTF-8 text, the text, and what yaml.safe_load makes of the text.
\* Path.exists() holds for a directory too, and open() then raises
\* IsADirectoryError; a content that is no UTF-8 text fails in the read that
\* safe_load makes of the file
load_file(data, file_path, files, present) ==
    IF PurePath(file_path) \in present
    THEN [status |-> "raised", error |-> "IsADirectoryError", data |-> data]
    ELSE IF PurePath(file_path) \notin DOMAIN files
    THEN [status |-> "raised", error |-> "FileNotFoundError", data |-> data]
    ELSE IF ~files[PurePath(file_path)].utf8
    THEN [status |-> "raised", error |-> "UnicodeDecodeError", data |-> data]
    ELSE LoadParsed(data, files[PurePath(file_path)].yaml)

\* yaml.dump(data, file, default_flow_style=False, indent=2): the text written
Dump(data) ==
    CASE data.kind = "None" -> "null\n...\n"
      [] data.kind = "list" /\ data.items = <<IntV(1)>> -> "- 1\n"
      [] data.kind = "dict" /\ DOMAIN data.items = {} -> "{}\n"
      [] /\ data.kind = "dict"
         /\ DOMAIN data.items = {<<"a">>}
         /\ data.items[<<"a">>] = IntV(2) -> "a: 2\n"

\* save_file: the parent directory is made, the file is opened for writing
\* (which fails on a directory, below a read-only directory and below a
\* file) and the dumped text replaces its content; no error is caught
save_file(data, file_path, files, present) ==
    LET path == PurePath(file_path)
        made == MkdirExistOk(Parent(path), present)
    IN IF Ancestors(Parent(path)) \cap DOMAIN files # {} \/ made.raised
       THEN [status |-> "raised", error |-> "OSError", dirs |-> present, files |-> files]
       ELSE IF \/ path \in made.dirs
               \/ Parent(path) \in ReadOnlyDirs
               \/ NameTooLong(path)
       THEN [status |-> "raised", error |-> "OSError", dirs |-> made.dirs, files |-> files]
       ELSE [status |-> "ok", dirs |-> made.dirs,
             files |-> [f \in DOMAIN files \cup {path} |->
                           IF f = path
                           THEN [utf8 |-> TRUE, text |-> Dump(data),
                                 yaml |-> SafeLoad(Dump(data))]
                           ELSE files[f]]]

\* str.split("."), on a text given as its characters
RECURSIVE SplitDots(_)
SplitDots(text) ==
    IF \A i \in 1..Len(text) : text[i] # "."
    THEN <<text>>
    ELSE LET i == CHOOSE j \in 1..Len(text) :
                      text[j] = "." /\ \A k \in 1..(j - 1) : text[k] # "."
         IN <<SubSeq(text, 1, i - 1)>> \o SplitDots(SubSeq(text, i + 1, Len(text)))

\* the loop of get_value: value[key] raises KeyError on a dict without the key
\* and TypeError on a list, a number or None indexed by a text
RECURSIVE Traverse(_, _)
Traverse(value, keys) ==
    IF keys = <<>>
    THEN [raised |-> FALSE, value |-> value]
    ELSE IF value.kind # "dict"
         THEN [raised |-> TRUE, value |-> NoData]
         ELSE IF Head(keys) \notin DOMAIN value.items
              THEN [raised |-> TRUE, value |-> NoData]
              ELSE Traverse(value.items[Head(keys)], Tail(keys))

get_value(data, key_path, default) ==
    IF data = NoData
    THEN default
    ELSE LET found == Traverse(data, SplitDots(key_path))
         IN IF found.raised THEN default ELSE found.value

\* validate_schema: every required key path has a value that is not None
validate_schema(data, required_keys) ==
    IF data = NoData
    THEN FALSE
    ELSE \A k \in 1..Len(required_keys) : get_value(data, required_keys[k], NoData) # NoData

(***************************************************************************)
(* main (cli.py): load_file on args.input, create_graph_from_config,        *)
(* save_graph, all inside try / except Exception.  input is what args.input *)
(* names; the result is the exit code, with the figure that                 *)
(* create_graph_from_config returned, the builder, the directories and the  *)
(* image files the run leaves behind.                                       *)
(***************************************************************************)
default_save_path ==
    <<".", "/", "o", "u", "t", "p", "u", "t", "/", "g", "r", "a", "p", "h", ".", "p", "n", "g">>

\* process_input
process_input(input, present) ==
    load_file(NoData, <<"i">>,
              IF input.exists THEN PurePath(<<"i">>) :> input ELSE EmptyDict, present)

\* main with the outcome of save_graph left unread
main_SaveUnchecked(b, input, present, files) ==
    LET loaded == process_input(input, present)
        config == loaded.value.items
        g == create_graph_from_config(b, config)
        output_path == Get(Get(config, "output", EmptyDict), "save_path", default_save_path)
        saved == save_graph(g.result, output_path, NoneFormat, present, files)
    IN IF loaded.status = "raised"
       THEN [result |-> 1, figure |-> None, b |-> b, dirs |-> present, files |-> files]
       ELSE IF Get(config, "data", EmptyDict) = NoData
       THEN [result |-> 1, figure |-> None, b |-> b, dirs |-> present, files |-> files]
       ELSE IF g.result = None
       THEN [result |-> 1, figure |-> None, b |-> g, dirs |-> present, files |-> files]
       ELSE IF saved.status = "raised"
       THEN [result |-> 1, figure |-> g.result, b |-> g, dirs |-> saved.dirs,
             files |-> saved.files]
       ELSE [result |-> 0, figure |-> g.result, b |-> g, dirs |-> saved.dirs,
             files |-> saved.files]

main(b, input, present, files) ==
    LET loaded == process_input(input, present)
        config == loaded.value.items
        g == create_graph_from_config(b, config)
        output_path == Get(Get(config, "output", EmptyDict), "save_path", default_save_path)
        saved == save_graph(g.result, output_path, NoneFormat, present, files)
    IN IF loaded.status = "raised"
       THEN [result |-> 1, figure |-> None, b |-> b, dirs |-> present, files |-> files]
       ELSE IF Get(config, "data", EmptyDict) = NoData
       THEN [result |-> 1, figure |-> None, b |-> b, dirs |-> present, files |-> files]
       ELSE IF g.result = None
       THEN [result |-> 1, figure |-> None, b |-> g, dirs |-> present, files |-> files]
       ELSE IF saved.status = "raised"
       THEN [result |-> 1, figure |-> g.result, b |-> g, dirs |-> saved.dirs,
             files |-> saved.files]
       ELSE [result |-> IF saved.value THEN 0 ELSE 1, figure |-> g.result,
             b |-> g, dirs |-> saved.dirs, files |-> saved.files]

(***************************************************************************)
(* Arguments of the calls.                                                  *)
(***************************************************************************)
\* output paths: an upper-case extension, none, one no backend writes, one
\* outside the documented formats, a directory to create, one that cannot
\* be created, a read-only one, a file in the way, a hidden name
OutputPaths ==
    {<<"o", ".", "P", "N", "G">>, <<"o">>, <<"o", ".", "t", "x", "t">>,
     <<"o", ".", "e", "p", "s">>, <<"n", "/", "o", ".", "p", "d", "f">>,
     <<"/", "r", "o", "/", "x", "/", "g", ".", "p", "n", "g">>,
     <<"/", "r", "o", "/", "g", ".", "p", "n", "g">>,
     <<"d", "/", "a", ".", "c", "/", "g", ".", "s", "v", "g">>,
     <<".", "h">>}

SaveFormatArgs == {NoneFormat, <<"p", "d", "f">>, <<"S", "V", "G">>, <<"x", "y", "z">>}

\* a figure handle, or None
FigureArgs == {None, 1}

\* in-memory sources: two usable tables, a dict without the 'dataframe' key,
\* a value that is no table, a table without rows, a table with one column
SourceDicts ==
    {[dataframe |-> DataFrame(2, 3), label |-> "a"],
     [dataframe |-> DataFrame(2, 3), label |-> "b"],
     [label |-> "k"],
     [dataframe |-> NotATable, label |-> "n"],
     [dataframe |-> DataFrame(2, 0), label |-> "e"],
     [dataframe |-> DataFrame(1, 3), label |-> "c"]}

MarkerLists == {<<>>, <<"o">>, <<"o", "s">>}

LineStyleLists == {<<>>, <<"-">>, <<"-", "--", "-.">>}

StyleConfigs ==
    {StyleConfig(12, 8, LineStyleConfig(m, l, a, 3, 8)) :
        m \in MarkerLists, l \in LineStyleLists, a \in BOOLEAN}

\* style configurations whose grid is off or whose font sizes are not the
\* defaults
OddStyleConfigs ==
    {[StyleConfig(12, 8, LineStyleConfig(<<>>, <<"-">>, TRUE, 3, 8))
         EXCEPT !.grid = [show |-> FALSE]],
     [StyleConfig(12, 8, LineStyleConfig(<<>>, <<"-">>, TRUE, 3, 8))
         EXCEPT !.fonts = [title_size |-> 20, label_size |-> 14, legend_size |-> 9]]}

GraphTypeArgs == {"line", "bar", "scatter", "pie"}

\* source entries of a configuration mapping
FileSourceDicts ==
    {[file |-> "a.csv"], [file |-> "a.csv", label |-> "A"], [file |-> "b.csv"],
     [file |-> "one.csv"], [file |-> "hdr.csv"], [file |-> "missing.csv"],
     [label |-> "L"]}

\* the graph section: type and style present or absent
GraphSections ==
    {t @@ st :
        t \in {EmptyDict, "type" :> "scatter", "type" :> "pie"},
        st \in {EmptyDict, "style" :> EmptyDict,
                "style" :> [width |-> 12, height |-> 8]}}

\* configuration mappings with at most maxlen source entries
ConfigMappings(maxlen) ==
    {("graph" :> g) @@ ("data" :> ("sources" :> srcs)) :
        g \in GraphSections, srcs \in SeqsUpTo(FileSourceDicts, maxlen)}
    \cup {EmptyDict}

\* the leaf fields of a configuration mapping, as key paths
LineStyleLeaves ==
    {<<"graph", "style", "line_style", k>> :
        k \in {"markers", "line_styles", "auto_cycle", "line_width", "marker_size"}}

OtherLeaves ==
    {<<"graph", "title">>, <<"data", "sources">>}
    \cup {<<"graph", a, k>> : a \in {"x_axis", "y_axis"}, k \in {"label", "min", "max"}}
    \cup {<<"graph", "style", k>> : k \in {"width", "height"}}
    \cup {<<"graph", "style", "fonts", k>> :
             k \in {"title_size", "label_size", "legend_size"}}
    \cup {<<"graph", "style", "grid", "show">>}
    \cup {<<"output", k>> : k \in {"format", "dpi", "save_path"}}

Leaves == LineStyleLeaves \cup OtherLeaves

\* the value a raw mapping supplies for a leaf: none is the field's default
SuppliedValue(path) ==
    LET k == path[Len(path)]
    IN CASE k = "title" -> "Sales"
         [] k = "label" -> "Time"
         [] k = "min" -> Num(0)
         [] k = "max" -> Num(100)
         [] k = "width" -> 12
         [] k = "height" -> 8
         [] k = "title_size" -> 18
         [] k = "label_size" -> 14
         [] k = "legend_size" -> 11
         [] k = "show" -> FALSE
         [] k = "markers" -> <<"s", "D">>
         [] k = "line_styles" -> <<"--", ":">>
         [] k = "auto_cycle" -> FALSE
         [] k = "line_width" -> 3
         [] k = "marker_size" -> 8
         [] k = "sources" ->
              <<[file |-> <<"d", "/", "a", ".", "c">>, label |-> <<"A">>]>>
         [] k = "format" -> "svg"
         [] k = "dpi" -> 150
         [] k = "save_path" -> <<".", "/", "o", "u", "t", ".", "s", "v", "g">>

\* path starts with prefix
HasPrefix(path, prefix) ==
    Len(prefix) <= Len(path) /\ SubSeq(path, 1, Len(prefix)) = prefix

\* the nested mapping that holds exactly the leaves of supplied, below prefix
RECURSIVE BuildMap(_, _)
BuildMap(supplied, prefix) ==
    [k \in {p[Len(prefix) + 1] : p \in {q \in supplied : HasPrefix(q, prefix)}} |->
        IF Append(prefix, k) \in supplied
        THEN SuppliedValue(Append(prefix, k))
        ELSE BuildMap(supplied, Append(prefix, k))]

\* the subsets of S with at most n elements
RECURSIVE SubsetsUpTo(_, _)
SubsetsUpTo(S, n) ==
    IF n = 0 THEN {{}}
    ELSE LET smaller == SubsetsUpTo(S, n - 1)
         IN smaller \cup {x \cup {e} : x \in smaller, e \in S}

\* d with the value v at the key path, from its k-th key on; the mappings on
\* the way are created when absent
RECURSIVE SetPath(_, _, _, _)
SetPath(d, path, k, v) ==
    IF k = Len(path) THEN (path[k] :> v) @@ d
    ELSE (path[k] :> SetPath(GetMap(d, path[k]), path, k + 1, v)) @@ d

\* d with every <<key path, value>> pair of the set
RECURSIVE SetAll(_, _)
SetAll(d, pairs) ==
    IF pairs = {} THEN d
    ELSE LET p == CHOOSE q \in pairs : TRUE
         IN SetAll(SetPath(d, p[1], 1, p[2]), pairs \ {p})

\* no key path of the set is another's prefix (nor the same path twice)
Consistent(pairs) ==
    \A p \in pairs, q \in pairs : p # q => ~HasPrefix(p[1], q[1])

\* a file name longer than NAME_MAX
LongName == [k \in 1..NAME_MAX + 1 |-> "a"]

\* lists of data source entries: label absent, empty or None, file empty or
\* absent, a file whose name has no stem, two missing files, an entry that is
\* no mapping, a bad entry after a good one, no entry, an over-long file name,
\* a file name with two suffixes
SourceLists ==
    {<< [file |-> <<"d", "/", "a", ".", "c">>] >>,
     << [file |-> <<"d", "/", "a", ".", "c">>, label |-> <<>>] >>,
     << [file |-> <<"d", "/", "a", ".", "c">>, label |-> NoneLabel] >>,
     << [file |-> <<>>, label |-> <<"A">>] >>,
     << [label |-> <<"L">>] >>,
     << [file |-> <<"/">>] >>,
     << [file |-> <<"m", ".", "c">>, label |-> <<"M">>], [file |-> <<"n", ".", "c">>] >>,
     << NoneValue >>,
     << [file |-> <<"b", ".", "c">>, label |-> <<"B">>], [label |-> <<"L">>] >>,
     <<>>,
     << [file |-> LongName, label |-> <<"x">>] >>,
     << [file |-> <<"x", ".", "t", ".", "g">>] >>}

\* values of a leaf field other than the usual one: an empty title, numbers
\* that are not positive, formats in upper case or outside the list, a save
\* path below a read-only directory, invalid markers and line styles, and a
\* key the configuration does not know
OddLeafValues ==
    {<< <<"graph", "title">>, "" >>,
     << <<"graph", "type">>, "bar" >>,
     << <<"graph", "style", "width">>, 0 >>,
     << <<"graph", "style", "height">>, -1 >>,
     << <<"graph", "style", "fonts", "title_size">>, 0 >>,
     << <<"graph", "style", "fonts", "label_size">>, -2 >>,
     << <<"graph", "style", "fonts", "legend_size">>, 0 >>,
     << <<"output", "format">>, "SVG" >>,
     << <<"output", "format">>, "gif" >>,
     << <<"output", "dpi">>, 0 >>,
     << <<"output", "dpi">>, -5 >>,
     << <<"output", "save_path">>, <<"/", "r", "o", "/", "x", "/", "g">> >>,
     << <<"graph", "style", "line_style", "markers">>, <<"o", "?">> >>,
     << <<"graph", "style", "line_style", "markers">>, <<>> >>,
     << <<"graph", "style", "line_style", "line_styles">>, <<"-", "~">> >>,
     << <<"graph", "style", "line_style", "line_styles">>, <<>> >>,
     << <<"graph", "style", "line_style", "line_width">>, 0 >>,
     << <<"graph", "style", "line_style", "line_width">>, -1 >>,
     << <<"graph", "style", "line_style", "marker_size">>, 0 >>,
     << <<"graph", "style", "line_style", "marker_size">>, -1 >>}
    \cup {<< <<"data", "sources">>, l >> : l \in SourceLists}

\* None or a number where from_dict expects a nested mapping
WrongShapes ==
    {<< p, v >> :
        p \in {<<"graph">>, <<"graph", "x_axis">>, <<"graph", "y_axis">>,
               <<"graph", "style">>, <<"graph", "style", "fonts">>,
               <<"graph", "style", "grid">>, <<"graph", "style", "line_style">>,
               <<"data">>, <<"output">>},
        v \in {NoneValue, Num(5)}}

\* what a raw mapping can hold besides the usual line_style leaves
LeafValues ==
    {<< p, SuppliedValue(p) >> : p \in OtherLeaves} \cup OddLeafValues \cup WrongShapes

\* arguments of the constructors called directly
MarkerArgs == {<<>>, <<"o", "s">>, <<"o", "?">>, <<"?">>}

LineStyleArgs == {<<>>, <<"-">>, <<"-", "--">>, <<"-", "~">>}

SizeArgs == {-1, 0, 1, 6}

FormatArgs == {"png", "svg", "SVG", "PNG", "Pdf", "jpeg", "gif", ""}

DpiArgs == {300, 0, -5}

FileArgs ==
    {<<>>, <<"d", "/", "a", ".", "c">>, <<"/">>, <<"x", ".", "t", ".", "g">>,
     <<".", "b">>, <<"a", ".">>}

LabelArgs == {<<>>, <<"A">>, NoneLabel}

(***************************************************************************)
(* State machine.  A call record holds the operation, its arguments, and,   *)
(* once returned, the value returned, the number of backend figures before  *)
(* the call and the arguments with which create_graph itself was reached.   *)
(***************************************************************************)
Builder == [fig |-> fig, ax |-> ax, axes |-> axes, nfigs |-> nfigs, result |-> None]

\* the axes shown while GraphBuilder.ax is None
NoAxes == NewAxes(<<0, 0>>)

NoCall == [op |-> "none", status |-> "returned", result |-> None, nfigs0 |-> 0]

Return(r, c) ==
    /\ fig' = r.fig
    /\ ax' = r.ax
    /\ axes' = r.axes
    /\ nfigs' = r.nfigs
    /\ ncalls' = ncalls + 1
    /\ UNCHANGED <<raw, cfg, loads, dumped, dirs>>
    /\ UNCHANGED io
    /\ call' = c @@ [status |-> "returned", result |-> r.result, nfigs0 |-> nfigs]

CreateGraph(data_sources, graph_type, style_config) ==
    Return(create_graph(Builder, data_sources, graph_type, style_config),
           [op |-> "create_graph", data_sources |-> data_sources,
            graph_type |-> graph_type, style_config |-> style_config])

CreateGraphFromConfig(config) ==
    Return(create_graph_from_config(Builder, config),
           [op |-> "create_graph_from_config", config |-> config,
            data_sources |-> SourcesOf(load_multiple_csvs(ConfigSources(config), 1, <<>>)),
            graph_type |-> ConfigGraphType(config),
            style_config |-> ConfigStyle(config)])

\* the YAML files that exist before any call: a mapping, a list, an empty
\* document, a text that is no YAML, and bytes that are no UTF-8 text
InitialYamlFiles ==
    (PurePath(<<"c", ".", "y", "a", "m", "l">>) :>
        [utf8 |-> TRUE, text |-> "a: 1", yaml |-> SafeLoad("a: 1")]) @@
    (PurePath(<<"l", ".", "y", "a", "m", "l">>) :>
        [utf8 |-> TRUE, text |-> "- 1", yaml |-> SafeLoad("- 1")]) @@
    (PurePath(<<"e", ".", "y", "a", "m", "l">>) :>
        [utf8 |-> TRUE, text |-> "", yaml |-> SafeLoad("")]) @@
    (PurePath(<<"m", ".", "y", "a", "m", "l">>) :>
        [utf8 |-> TRUE, text |-> "a: [", yaml |-> SafeLoad("a: [")]) @@
    (PurePath(<<"u", ".", "y", "a", "m", "l">>) :>
        [utf8 |-> FALSE, text |-> "", yaml |-> SafeLoad("a: [")])

InitBuilder ==
    /\ fig = None
    /\ ax = None
    /\ axes = NoAxes
    /\ nfigs = 0
    /\ ncalls = 0
    /\ written = {}
    /\ parser = NoData
    /\ yaml_files = InitialYamlFiles
    /\ data_config = <<>>
    /\ log = <<>>

\* no mapping has been handed to Config.from_dict
NoConfig == [status |-> "none"]

InitNoConfig ==
    /\ raw = EmptyDict
    /\ cfg = NoConfig
    /\ loads = 0
    /\ dumped = <<>>
    /\ dirs = InitialDirs

\* ---- one call on a fresh builder, its arguments drawn by Init ----
InitRender ==
    /\ InitBuilder
    /\ InitNoConfig
    /\ \/ \E ds \in SeqsUpTo(SourceDicts, MaxSources), gt \in GraphTypeArgs,
             sc \in {NoStyle} \cup StyleConfigs \cup OddStyleConfigs :
             call = [op |-> "create_graph", status |-> "pending", data_sources |-> ds,
                     graph_type |-> gt, style_config |-> sc]
       \/ \E c \in ConfigMappings(MaxFileSources) :
             call = [op |-> "create_graph_from_config", status |-> "pending",
                     config |-> c]

RunCreateGraph ==
    /\ call.status = "pending"
    /\ call.op = "create_graph"
    /\ CreateGraph(call.data_sources, call.graph_type, call.style_config)

RunCreateGraphFromConfig ==
    /\ call.status = "pending"
    /\ call.op = "create_graph_from_config"
    /\ CreateGraphFromConfig(call.config)

NextRender == RunCreateGraph \/ RunCreateGraphFromConfig

SpecRender == InitRender /\ [][NextRender]_vars

\* ---- a sequence of calls on one builder ----
SmallSources == {[dataframe |-> DataFrame(2, 3), label |-> "a"], [label |-> "k"]}

SmallStyles ==
    {NoStyle,
     StyleConfig(12, 8, LineStyleConfig(<<"o", "s">>, <<"-">>, TRUE, 3, 8))}

SmallConfigs ==
    {g @@ ("data" :> ("sources" :> srcs)) :
        g \in {EmptyDict, "graph" :> ("style" :> [width |-> 12, height |-> 8])},
        srcs \in SeqsUpTo({[file |-> "a.csv"], [file |-> "missing.csv"]}, MaxBatch)}

Init == InitBuilder /\ InitNoConfig /\ call = NoCall

CallCreateGraph ==
    /\ ncalls < MaxCalls
    /\ \E ds \in SeqsUpTo(SmallSources, MaxBatch), gt \in GraphTypeArgs,
          sc \in SmallStyles :
          CreateGraph(ds, gt, sc)

CallCreateGraphFromConfig ==
    /\ ncalls < MaxCalls
    /\ \E c \in SmallConfigs : CreateGraphFromConfig(c)

Next == CallCreateGraph \/ CallCreateGraphFromConfig

Spec == Init /\ [][Next]_vars

\* ---- one save_graph call, its arguments drawn by Init ----
InitSave ==
    /\ InitBuilder
    /\ InitNoConfig
    /\ \E f \in FigureArgs, p \in OutputPaths, t \in SaveFormatArgs :
          call = [op |-> "save_graph", status |-> "pending", figure |-> f,
                  output_path |-> p, format |-> t]

RunSaveGraph ==
    /\ call.op = "save_graph"
    /\ call.status = "pending"
    /\ LET r == save_graph(call.figure, call.output_path, call.format, dirs, written)
       IN /\ call' = [call EXCEPT !.status = "returned"]
                        @@ [result |-> IF r.status = "raised" THEN Raise(r.error)
                                       ELSE [status |-> "ok", value |-> r.value],
                            savefig |-> r.savefig, dirs0 |-> dirs]
          /\ dirs' = r.dirs
          /\ written' = r.files
    /\ UNCHANGED <<fig, ax, axes, nfigs, ncalls, raw, cfg, loads, dumped>>
    /\ UNCHANGED <<parser, yaml_files, data_config, log>>

NextSave == RunSaveGraph

SpecSave == InitSave /\ [][NextSave]_vars

\* ---- one run of the command line's main, its input file drawn by Init ----
\* the output section: absent, or a save_path (one that is written, one whose
\* format no backend writes, one whose directory cannot be created)
OutputSections ==
    {EmptyDict}
    \cup {"output" :> ("save_path" :> p) :
            p \in {<<"o", ".", "P", "N", "G">>, <<"o", ".", "t", "x", "t">>,
                   <<"/", "r", "o", "/", "x", "/", "g", ".", "p", "n", "g">>}}

\* what args.input names: no file, a file that is no UTF-8 text, one that is
\* no YAML, a list, an empty document, a mapping whose data section is null,
\* or a configuration mapping
InputFiles ==
    {[exists |-> FALSE, utf8 |-> FALSE, yaml |-> [raised |-> TRUE, value |-> NoData]],
     [exists |-> TRUE, utf8 |-> FALSE, yaml |-> [raised |-> TRUE, value |-> NoData]],
     [exists |-> TRUE, utf8 |-> TRUE, yaml |-> [raised |-> TRUE, value |-> NoData]],
     [exists |-> TRUE, utf8 |-> TRUE,
      yaml |-> [raised |-> FALSE, value |-> ListV(<<IntV(1)>>)]],
     [exists |-> TRUE, utf8 |-> TRUE, yaml |-> [raised |-> FALSE, value |-> NoData]],
     [exists |-> TRUE, utf8 |-> TRUE,
      yaml |-> [raised |-> FALSE, value |-> DictV("data" :> NoData)]]}
    \cup {[exists |-> TRUE, utf8 |-> TRUE,
           yaml |-> [raised |-> FALSE, value |-> DictV(c @@ o)]] :
             c \in ConfigMappings(MaxFileSources), o \in OutputSections}

InitMain ==
    /\ InitBuilder
    /\ InitNoConfig
    /\ \E input \in InputFiles :
          call = [op |-> "main", status |-> "pending", input |-> input]

RunMain ==
    /\ call.op = "main"
    /\ call.status = "pending"
    /\ LET r == main(Builder, call.input, dirs, written)
       IN /\ call' = [call EXCEPT !.status = "returned"]
                        @@ [result |-> r.result, figure |-> r.figure,
                            nfigs0 |-> nfigs, dirs0 |-> dirs]
          /\ fig' = r.b.fig
          /\ ax' = r.b.ax
          /\ axes' = r.b.axes
          /\ nfigs' = r.b.nfigs
          /\ dirs' = r.dirs
          /\ written' = r.files
    /\ UNCHANGED <<ncalls, raw, cfg, loads, dumped>>
    /\ UNCHANGED <<parser, yaml_files, data_config, log>>

NextMain == RunMain

SpecMain == InitMain /\ [][NextMain]_vars

\* ---- a sequence of loads, saves and lookups on one YAMLParser ----
yaml_strings == {"a: 1", "a: {b: 2}", "b: [3]", "{}", "- 1", "5", "", "a: [", "a: b: c"}

\* paths to load: the files that exist, one that does not exist yet, one below
\* directories that do not exist yet, and a directory
YamlFileArgs ==
    {<<"c", ".", "y", "a", "m", "l">>, <<"l", ".", "y", "a", "m", "l">>, <<"e", ".", "y", "a", "m", "l">>,
     <<"m", ".", "y", "a", "m", "l">>, <<"u", ".", "y", "a", "m", "l">>, <<"x", ".", "y", "a", "m", "l">>,
     <<"n", "/", "m", "/", "y", ".", "y", "a", "m", "l">>, <<"d">>}

\* paths to save to: a new file, an existing one, one below directories to be
\* made, one below a directory that cannot be made, a directory
SaveFileArgs ==
    {<<"x", ".", "y", "a", "m", "l">>, <<"c", ".", "y", "a", "m", "l">>,
     <<"n", "/", "m", "/", "y", ".", "y", "a", "m", "l">>,
     <<"/", "r", "o", "/", "x", "/", "y", ".", "y", "a", "m", "l">>,
     <<"d">>}

\* data to save: a mapping and a list
DataArgs == {DictV(<<"a">> :> IntV(2)), ListV(<<IntV(1)>>)}

RequiredKeyArgs == {<<>>, << <<"a">> >>, << <<"a">>, <<"b">> >>}

KeyPathArgs == {<<"a">>, <<"b">>, <<"a", ".", "b">>, <<"a", ".">>, <<>>}

DefaultArgs == {NoData, IntV(7)}

InitYaml == InitBuilder /\ InitNoConfig /\ call = NoCall

\* what a load is given to read: a text, or nothing (no file at the path)
NoInput == [exists |-> FALSE, utf8 |-> FALSE, text |-> ""]

TextInput(text) == [exists |-> TRUE, utf8 |-> TRUE, text |-> text]

FileInput(file_path, files) ==
    IF PurePath(file_path) \in DOMAIN files
    THEN [exists |-> TRUE, utf8 |-> files[PurePath(file_path)].utf8,
          text |-> files[PurePath(file_path)].text]
    ELSE NoInput

LoadReturns(op, arg, input, r) ==
    /\ parser' = r.data
    /\ log' = Append(log, [op |-> op, arg |-> arg, input |-> input,
                           raised |-> r.status = "raised",
                           error |-> IF r.status = "raised" THEN r.error ELSE "",
                           before |-> parser])
    /\ call' = [op |-> op, status |-> "returned", arg |-> arg,
                result |-> IF r.status = "raised" THEN Raise(r.error)
                           ELSE [status |-> "ok", value |-> r.value]]

CallLoadString ==
    /\ Len(log) < MaxLoads
    /\ \E yaml_string \in yaml_strings :
          LoadReturns("load_string", yaml_string, TextInput(yaml_string),
                      load_string(parser, yaml_string))
    /\ UNCHANGED <<fig, ax, axes, nfigs, ncalls, raw, cfg, loads, dumped, dirs>>
    /\ UNCHANGED <<written, yaml_files, data_config>>

CallLoadFile ==
    /\ Len(log) < MaxLoads
    /\ \E file_path \in YamlFileArgs :
          LoadReturns("load_file", file_path, FileInput(file_path, yaml_files),
                      load_file(parser, file_path, yaml_files, dirs))
    /\ UNCHANGED <<fig, ax, axes, nfigs, ncalls, raw, cfg, loads, dumped, dirs>>
    /\ UNCHANGED <<written, yaml_files, data_config>>

CallSaveFile ==
    /\ ncalls < MaxSaves
    /\ \E data \in DataArgs, file_path \in SaveFileArgs :
          LET r == save_file(data, file_path, yaml_files, dirs)
          IN /\ yaml_files' = r.files
             /\ dirs' = r.dirs
             /\ call' = [op |-> "save_file", status |-> "returned", data |-> data,
                         file_path |-> file_path,
                         result |-> IF r.status = "raised" THEN Raise(r.error)
                                    ELSE [status |-> "ok", value |-> NoData]]
    /\ ncalls' = ncalls + 1
    /\ UNCHANGED <<fig, ax, axes, nfigs, raw, cfg, loads, dumped>>
    /\ UNCHANGED <<written, parser, data_config, log>>

CallValidateSchema ==
    /\ \E required_keys \in RequiredKeyArgs :
          call' = [op |-> "validate_schema", status |-> "returned",
                   required_keys |-> required_keys,
                   result |-> [status |-> "ok",
                               value |-> validate_schema(parser, required_keys)]]
    /\ UNCHANGED <<fig, ax, axes, nfigs, ncalls, raw, cfg, loads, dumped, dirs>>
    /\ UNCHANGED io

CallGetValue ==
    /\ \E key_path \in KeyPathArgs, default \in DefaultArgs :
          call' = [op |-> "get_value", status |-> "returned", key_path |-> key_path,
                   default |-> default,
                   result |-> [status |-> "ok",
                               value |-> get_value(parser, key_path, default)]]
    /\ UNCHANGED <<fig, ax, axes, nfigs, ncalls, raw, cfg, loads, dumped, dirs>>
    /\ UNCHANGED io

NextYaml ==
    \/ CallLoadString
    \/ CallLoadFile
    \/ CallSaveFile
    \/ CallGetValue
    \/ CallValidateSchema

SpecYaml == InitYaml /\ [][NextYaml]_vars

\* ---- a sequence of add_source calls on one DataConfig ----
InitSources == InitBuilder /\ InitNoConfig /\ call = NoCall

AddSourceCall ==
    /\ Len(log) < MaxAdds
    /\ \E f \in FileArgs, l \in LabelArgs :
          LET r == add_source(data_config, f, l)
          IN /\ data_config' = r.sources
             /\ log' = Append(log, [file |-> f, label |-> l, raised |-> r.raised])
             /\ call' = [op |-> "add_source", status |-> "returned", file |-> f,
                         label |-> l,
                         result |-> IF r.raised THEN Raise(r.error)
                                    ELSE [status |-> "ok", value |-> r.sources]]
    /\ UNCHANGED <<fig, ax, axes, nfigs, ncalls, raw, cfg, loads, dumped, dirs>>
    /\ UNCHANGED <<written, parser, yaml_files>>

NextSources == AddSourceCall

SpecSources == InitSources /\ [][NextSources]_vars

\* ---- the configuration objects: either a raw mapping drawn by Init goes
\* through Config.from_dict and is then validated or round-tripped through
\* Config.to_dict, or one constructor is called with arguments drawn by Init ----
InitConfig ==
    /\ InitBuilder
    /\ cfg = [status |-> "pending"]
    /\ loads = 0
    /\ dumped = <<>>
    /\ dirs = InitialDirs
    /\ \/ /\ call = NoCall
          /\ \E a \in SUBSET LineStyleLeaves,
                b \in SubsetsUpTo(LeafValues, MaxOtherLeaves) :
                /\ Consistent(b)
                /\ raw = SetAll(BuildMap(a, <<>>), b)
       \/ /\ raw = EmptyDict
          /\ \/ \E m \in MarkerArgs, l \in LineStyleArgs, a \in BOOLEAN,
                   w \in SizeArgs, z \in SizeArgs :
                   call = [op |-> "LineStyleConfig", status |-> "pending",
                           markers |-> m, line_styles |-> l, auto_cycle |-> a,
                           line_width |-> w, marker_size |-> z]
             \/ \E f \in FormatArgs, d \in DpiArgs :
                   call = [op |-> "OutputConfig", status |-> "pending",
                           format |-> f, dpi |-> d, save_path |-> DefaultSavePath]
             \/ \E f \in FileArgs, l \in LabelArgs :
                   call = [op |-> "DataSource", status |-> "pending",
                           file |-> f, label |-> l]
             \/ \E f \in FileArgs, l \in LabelArgs :
                   call = [op |-> "add_source", status |-> "pending",
                           file |-> f, label |-> l]

\* Config.from_dict(data): on the raw mapping first, then on what to_dict
\* returned last
FromDict ==
    /\ call.op = "none"
    /\ loads = Len(dumped)
    /\ loads < MaxRoundTrips
    /\ cfg.status \in {"pending", "ok"}
    /\ LET data == IF loads = 0 THEN raw ELSE dumped[loads]
       IN /\ raw' = data
          /\ cfg' = from_dict(data)
    /\ loads' = loads + 1
    /\ UNCHANGED <<fig, ax, axes, nfigs, call, ncalls, dumped, dirs>>
    /\ UNCHANGED io

\* config.to_dict()
ToDict ==
    /\ call.op = "none"
    /\ cfg.status = "ok"
    /\ Len(dumped) < loads
    /\ dumped' = Append(dumped, to_dict(cfg.config))
    /\ UNCHANGED <<fig, ax, axes, nfigs, call, ncalls, raw, cfg, loads, dirs>>
    /\ UNCHANGED io

\* config.validate() on the Config that from_dict made of the raw mapping
Validate ==
    /\ call.op = "none"
    /\ cfg.status = "ok"
    /\ loads = 1
    /\ dumped = <<>>
    /\ LET v == validate(cfg.config, dirs)
       IN /\ call' = [op |-> "validate", status |-> "returned", dirs0 |-> dirs,
                      result |-> IF v.status = "raised" THEN Raise(v.error)
                                 ELSE [status |-> "ok", errors |-> v.errors]]
          /\ dirs' = v.dirs
    /\ UNCHANGED <<fig, ax, axes, nfigs, ncalls, raw, cfg, loads, dumped>>
    /\ UNCHANGED io

\* config.is_valid(), before or after a validate()
IsValid ==
    /\ call.op \in {"none", "validate"}
    /\ cfg.status = "ok"
    /\ loads = 1
    /\ dumped = <<>>
    /\ LET v == is_valid(cfg.config, dirs)
       IN /\ call' = [op |-> "is_valid", status |-> "returned", dirs0 |-> dirs,
                      result |-> IF v.status = "raised" THEN Raise(v.error)
                                 ELSE [status |-> "ok", valid |-> v.valid]]
          /\ dirs' = v.dirs
    /\ UNCHANGED <<fig, ax, axes, nfigs, ncalls, raw, cfg, loads, dumped>>
    /\ UNCHANGED io

\* the pending constructor call returns r
Constructed(r) ==
    /\ call' = [call EXCEPT !.status = "returned"] @@ [result |-> r]
    /\ UNCHANGED <<fig, ax, axes, nfigs, ncalls, raw, cfg, loads, dumped, dirs>>
    /\ UNCHANGED io

\* LineStyleConfig(markers, line_styles, auto_cycle, line_width, marker_size)
ConstructLineStyleConfig ==
    /\ call.op = "LineStyleConfig"
    /\ call.status = "pending"
    /\ LET ls == LineStyleConfig(call.markers, call.line_styles, call.auto_cycle,
                                 call.line_width, call.marker_size)
       IN Constructed(IF LineStyleRaises(ls) THEN Raise("ValueError")
                      ELSE [status |-> "ok", value |-> ls])

\* OutputConfig(format, dpi, save_path)
ConstructOutputConfig ==
    /\ call.op = "OutputConfig"
    /\ call.status = "pending"
    /\ LET out == [format |-> call.format, dpi |-> call.dpi,
                   save_path |-> call.save_path]
       IN Constructed(IF OutputRaises(out) THEN Raise("ValueError")
                      ELSE [status |-> "ok", value |-> out])

\* DataSource(file, label)
ConstructDataSource ==
    /\ call.op = "DataSource"
    /\ call.status = "pending"
    /\ LET src == DataSource(call.file, call.label)
       IN Constructed(IF src.raised THEN Raise(src.error)
                      ELSE [status |-> "ok",
                            value |-> [file |-> src.file, label |-> src.label]])

\* DataConfig().add_source(file, label)
CallAddSource ==
    /\ call.op = "add_source"
    /\ call.status = "pending"
    /\ LET r == add_source(<<>>, call.file, call.label)
       IN Constructed(IF r.raised THEN Raise(r.error)
                      ELSE [status |-> "ok", value |-> r.sources])

NextConfig ==
    \/ FromDict
    \/ ToDict
    \/ Validate
    \/ IsValid
    \/ ConstructLineStyleConfig
    \/ ConstructOutputConfig
    \/ ConstructDataSource
    \/ CallAddSource

SpecConfig == InitConfig /\ [][NextConfig]_vars

(***************************************************************************)
(* Vocabulary of the properties.                                            *)
(***************************************************************************)
\* a call has returned
Returned == call.op # "none" /\ call.status = "returned"

\* the call reached plt.subplots, so that axes is the axes of this call
Created == Returned /\ nfigs > call.nfigs0

\* a source create_graph can plot: both keys, a non-empty table, two columns
Plottable(source) ==
    /\ "dataframe" \in DOMAIN source
    /\ "label" \in DOMAIN source
    /\ source.dataframe.kind = "DataFrame"
    /\ source.dataframe.nrows > 0
    /\ source.dataframe.ncols >= 2

\* the zero-based input positions of the plottable sources, in order
PlottablePositions(data_sources) ==
    SelectSeq([k \in 1..Len(data_sources) |-> k - 1],
              LAMBDA i : Plottable(data_sources[i + 1]))

AllPlottable(data_sources) ==
    \A k \in 1..Len(data_sources) : Plottable(data_sources[k])

\* the call was a line chart drawn under a StyleConfig with this auto_cycle
LineCall(auto_cycle) ==
    /\ Created
    /\ call.graph_type = "line"
    /\ call.style_config.kind = "StyleConfig"
    /\ call.style_config.line_style.auto_cycle = auto_cycle

Markers == call.style_config.line_style.markers

LineStyles == call.style_config.line_style.line_styles

\* element k (zero-based) of the marker-major product of markers and styles
ProductAt(markers, line_styles, k) ==
    <<markers[(k \div Len(line_styles)) + 1], line_styles[(k % Len(line_styles)) + 1]>>

StyleOf(artist) == <<artist.marker, artist.linestyle>>

(***************************************************************************)
(* C1.  Line chart, auto_cycle on, m > 0 markers and d > 0 line styles, all *)
(* sources plottable: every source is drawn, series i with element          *)
(* i mod (m*d) of the marker-major product of markers and line styles, so   *)
(* that series i and i + m*d are styled alike.                              *)
(***************************************************************************)
C1_AutoCycleProduct ==
    (/\ LineCall(TRUE)
     /\ Len(Markers) > 0
     /\ Len(LineStyles) > 0
     /\ AllPlottable(call.data_sources))
    => /\ call.result # None
       /\ Len(axes.artists) = Len(call.data_sources)
       /\ \A i \in 0..(Len(axes.artists) - 1) :
            /\ axes.artists[i + 1].src = i
            /\ StyleOf(axes.artists[i + 1]) =
                   ProductAt(Markers, LineStyles, i % (Len(Markers) * Len(LineStyles)))
       /\ \A i, j \in 0..(Len(axes.artists) - 1) :
            j = i + Len(Markers) * Len(LineStyles)
            => StyleOf(axes.artists[i + 1]) = StyleOf(axes.artists[j + 1])

\* markers [o, s], styles [-, --, -.], four series: (o,-), (o,--), (o,-.), (s,-)
C1_Witness ==
    /\ LineCall(TRUE)
    /\ Markers = <<"o", "s">>
    /\ LineStyles = <<"-", "--", "-.">>
    /\ AllPlottable(call.data_sources)
    /\ Len(axes.artists) = 4
    /\ StyleOf(axes.artists[1]) = <<"o", "-">>
    /\ StyleOf(axes.artists[2]) = <<"o", "--">>
    /\ StyleOf(axes.artists[3]) = <<"o", "-.">>
    /\ StyleOf(axes.artists[4]) = <<"s", "-">>

(***************************************************************************)
(* C2.  Line chart, auto_cycle off: the series of input position i has      *)
(* marker markers[i mod m] (none when there are no markers) and line style  *)
(* line_styles[i mod d] ('-' when there are none), each indexed on its own. *)
(***************************************************************************)
C2_ManualIndependent ==
    LineCall(FALSE)
    => \A k \in 1..Len(axes.artists) :
         LET i == axes.artists[k].src
         IN /\ axes.artists[k].marker =
                  IF Len(Markers) > 0 THEN Markers[(i % Len(Markers)) + 1] ELSE "None"
            /\ axes.artists[k].linestyle =
                  IF Len(LineStyles) > 0 THEN LineStyles[(i % Len(LineStyles)) + 1]
                  ELSE "-"

\* markers [o, s], styles [-, --, -.], four series: (o,-), (s,--), (o,-.), (s,-)
C2_Witness ==
    /\ LineCall(FALSE)
    /\ Markers = <<"o", "s">>
    /\ LineStyles = <<"-", "--", "-.">>
    /\ call.result # None
    /\ Len(axes.artists) = 4
    /\ StyleOf(axes.artists[1]) = <<"o", "-">>
    /\ StyleOf(axes.artists[2]) = <<"s", "--">>
    /\ StyleOf(axes.artists[3]) = <<"o", "-.">>
    /\ StyleOf(axes.artists[4]) = <<"s", "-">>

(***************************************************************************)
(* C3.  Line chart, auto_cycle on, no markers, d > 0 line styles: the       *)
(* cycle is the line styles alone; the k-th series drawn has no marker and  *)
(* line style line_styles[k mod d], and when every source is plottable the  *)
(* k-th series drawn is the k-th source.                                    *)
(***************************************************************************)
C3_AutoCycleNoMarkers ==
    (LineCall(TRUE) /\ Len(Markers) = 0 /\ Len(LineStyles) > 0)
    => /\ call.result # None \/ ~AllPlottable(call.data_sources)
       /\ axes.cycle = [k \in 1..Len(LineStyles) |-> [linestyle |-> LineStyles[k]]]
       /\ \A k \in 0..(Len(axes.artists) - 1) :
            /\ axes.artists[k + 1].marker = "None"
            /\ axes.artists[k + 1].linestyle = LineStyles[(k % Len(LineStyles)) + 1]
            /\ AllPlottable(call.data_sources) => axes.artists[k + 1].src = k
       /\ AllPlottable(call.data_sources)
            => Len(axes.artists) = Len(call.data_sources)

\* styles [-, --, -.], four series: -, --, -., - and no marker
C3_Witness ==
    /\ LineCall(TRUE)
    /\ Markers = <<>>
    /\ LineStyles = <<"-", "--", "-.">>
    /\ call.result # None
    /\ Len(axes.artists) = 4
    /\ axes.artists[2].linestyle = "--"
    /\ axes.artists[3].linestyle = "-."
    /\ axes.artists[4].linestyle = "-"
    /\ axes.artists[4].marker = "None"

(***************************************************************************)
(* C4.  In both cycling modes a plotted line series is styled by its        *)
(* zero-based position in the input list, also when earlier sources were    *)
(* skipped.  (The claim as stated; auto-cycle mode breaks it.)              *)
(***************************************************************************)
\* the style the configuration assigns to index i of a line chart
StyleForIndex(line_style, i) ==
    LET m == Len(line_style.markers)
        d == Len(line_style.line_styles)
    IN IF line_style.auto_cycle
       THEN IF m = 0 THEN <<"None", line_style.line_styles[(i % d) + 1]>>
            ELSE ProductAt(line_style.markers, line_style.line_styles, i % (m * d))
       ELSE <<IF m > 0 THEN line_style.markers[(i % m) + 1] ELSE "None",
              line_style.line_styles[(i % d) + 1]>>

C4_StyleByInputPosition ==
    (/\ Created
     /\ call.graph_type = "line"
     /\ call.style_config.kind = "StyleConfig"
     /\ Len(LineStyles) > 0)
    => \A k \in 1..Len(axes.artists) :
         StyleOf(axes.artists[k]) =
            StyleForIndex(call.style_config.line_style, axes.artists[k].src)

(***************************************************************************)
(* C5.  Scatter chart: whatever auto_cycle and line_styles are, the series  *)
(* of input position i has marker markers[i mod m], or 'o' when there are   *)
(* no markers or no style configuration; never 'no marker', never a line    *)
(* style, and no property cycle is installed.                               *)
(***************************************************************************)
C5_ScatterMarker ==
    (Created /\ call.graph_type = "scatter")
    => /\ ~axes.custom_cycle
       /\ \A k \in 1..Len(axes.artists) :
            LET artist == axes.artists[k]
                configured == /\ call.style_config.kind = "StyleConfig"
                              /\ Len(Markers) > 0
            IN /\ artist.kind = "scatter"
               /\ artist.marker = IF configured
                                  THEN Markers[(artist.src % Len(Markers)) + 1]
                                  ELSE "o"
               /\ artist.marker \notin {"None", "unset"}
               /\ artist.linestyle = "unset"

\* markers [o, s], auto_cycle on, three series: o, s, o
C5_Witness ==
    /\ Created
    /\ call.graph_type = "scatter"
    /\ call.style_config.kind = "StyleConfig"
    /\ call.style_config.line_style.auto_cycle
    /\ Markers = <<"o", "s">>
    /\ Len(axes.artists) = 3
    /\ axes.artists[2].marker = "s"
    /\ axes.artists[3].marker = "o"

(***************************************************************************)
(* C6.  Bar chart: under every style configuration no marker and no line    *)
(* style reaches a bar series, and the axes keep the backend's own property *)
(* cycle.                                                                   *)
(***************************************************************************)
C6_BarUnstyled ==
    (Created /\ call.graph_type = "bar")
    => /\ ~axes.custom_cycle
       /\ axes.cycle = DefaultCycle
       /\ \A k \in 1..Len(axes.artists) :
            /\ axes.artists[k].kind = "bar"
            /\ axes.artists[k].marker = "unset"
            /\ axes.artists[k].linestyle = "unset"

\* a bar chart of two series under markers [o, s] with auto_cycle on
C6_Witness ==
    /\ Created
    /\ call.graph_type = "bar"
    /\ call.style_config.kind = "StyleConfig"
    /\ call.style_config.line_style.auto_cycle
    /\ Markers = <<"o", "s">>
    /\ Len(axes.artists) >= 2
    /\ call.result # None

(***************************************************************************)
(* C7.  create_graph with in-memory tables and no style configuration: a    *)
(* source with unusable data is skipped alone; whenever some source of the  *)
(* batch is plottable a figure is returned that holds exactly the plottable *)
(* sources, in input order.  (The claim as stated; a one-column table       *)
(* breaks it.)                                                              *)
(***************************************************************************)
ChartTypes == {"line", "bar", "scatter"}

C7_BadSourceSkippedAlone ==
    (/\ Returned
     /\ call.op = "create_graph"
     /\ call.graph_type \in ChartTypes
     /\ call.style_config = NoStyle
     /\ \E k \in 1..Len(call.data_sources) : Plottable(call.data_sources[k]))
    => /\ call.result # None
       /\ [k \in 1..Len(axes.artists) |-> axes.artists[k].src]
             = PlottablePositions(call.data_sources)

(***************************************************************************)
(* C8.  A render of a non-empty batch returns no figure exactly when no     *)
(* source of the batch is usable, through create_graph and through          *)
(* create_graph_from_config.  Stated for a supported chart type, no style   *)
(* (None or an empty style section) and sources that are plottable or       *)
(* skipped for missing keys, a non-table value, an empty table or a file    *)
(* that does not load.  (The claim as stated; a batch whose sources are all *)
(* skipped breaks it.)                                                      *)
(***************************************************************************)
\* a table that is there but has fewer than two columns
TooNarrow(source) ==
    /\ "dataframe" \in DOMAIN source
    /\ "label" \in DOMAIN source
    /\ source.dataframe.kind = "DataFrame"
    /\ source.dataframe.nrows > 0
    /\ source.dataframe.ncols < 2

\* the batch handed to the call
InputBatch ==
    IF call.op = "create_graph" THEN call.data_sources ELSE ConfigSources(call.config)

C8_FailsIffNoneUsable ==
    (/\ Returned
     /\ call.graph_type \in ChartTypes
     /\ Len(InputBatch) > 0
     /\ call.style_config \in {NoStyle, StyleDict(EmptyDict)}
     /\ \A k \in 1..Len(call.data_sources) : ~TooNarrow(call.data_sources[k]))
    => (call.result = None
          <=> ~\E k \in 1..Len(call.data_sources) : Plottable(call.data_sources[k]))

(***************************************************************************)
(* C9.  A create_graph call with a chart type outside line, bar, scatter,   *)
(* or with an empty list of sources, returns None and leaves the builder's  *)
(* fig and ax and the backend untouched: no figure or axes is created.      *)
(***************************************************************************)
C9_RejectedBeforeBackend ==
    [][(/\ ncalls' = ncalls + 1
        /\ call'.op = "create_graph"
        /\ \/ call'.graph_type \notin ChartTypes
           \/ call'.data_sources = <<>>)
       => (/\ call'.result = None
           /\ fig' = fig
           /\ ax' = ax
           /\ axes' = axes
           /\ nfigs' = nfigs)]_vars

\* an unsupported chart type asked of a builder that holds an earlier figure
C9_Witness ==
    /\ Returned
    /\ call.op = "create_graph"
    /\ call.graph_type = "pie"
    /\ Len(call.data_sources) > 0
    /\ call.result = None
    /\ fig # None
    /\ ax = fig
    /\ Len(axes.artists) > 0
    /\ nfigs = call.nfigs0

(***************************************************************************)
(* C10.  Config.from_dict resolves every supplied leaf field to the value   *)
(* supplied and every absent leaf field to its documented default, the      *)
(* default of the no-argument Config(); from_dict of the empty mapping is   *)
(* Config().  (The claim as stated; absent markers and line_styles break    *)
(* it.)                                                                     *)
(***************************************************************************)
\* the mapping holds a value at the key path, from its k-th key on
RECURSIVE HasPath(_, _, _)
HasPath(d, path, k) ==
    /\ path[k] \in DOMAIN d
    /\ k = Len(path) \/ HasPath(d[path[k]], path, k + 1)

\* the value at the key path, from its k-th key on
RECURSIVE Lookup(_, _, _)
Lookup(d, path, k) ==
    IF k = Len(path) THEN d[path[k]] ELSE Lookup(d[path[k]], path, k + 1)

\* the source made of a given entry keeps its file, and its label when the
\* entry gives one that is neither None nor empty
SourceKept(given, made) ==
    /\ made.file = given.file
    /\ ("label" \in DOMAIN given /\ given.label \notin {<<>>, NoneLabel})
          => made.label = given.label

\* the sources made of the given entries, one for one
SourcesKept(given, made) ==
    /\ Len(made) = Len(given)
    /\ \A i \in 1..Len(given) : SourceKept(given[i], made[i])

C10_PerFieldDefaults ==
    cfg.status = "ok"
    => /\ \A p \in Leaves :
            IF p = <<"data", "sources">> /\ HasPath(raw, p, 1)
            THEN SourcesKept(Lookup(raw, p, 1), cfg.config.data.sources)
            ELSE Lookup(cfg.config, p, 1) =
                    IF HasPath(raw, p, 1) THEN Lookup(raw, p, 1)
                    ELSE Lookup(DefaultConfig, p, 1)
       /\ raw = EmptyDict => cfg.config = DefaultConfig

(***************************************************************************)
(* Vocabulary of the configuration properties.                              *)
(***************************************************************************)
\* the elements of a list
Range(list) == {list[k] : k \in 1..Len(list)}

\* Config.from_dict has been applied to raw
Loaded == loads >= 1 /\ cfg.status \in {"ok", "raised"}

\* the raw mapping supplies the value v at the key path p
Supplies(p, v) == HasPath(raw, p, 1) /\ Lookup(raw, p, 1) = v

\* a constructor called directly has returned
Constructor(op) == call.op = op /\ call.status = "returned"

\* the key paths of the line_style leaves
MarkersPath == <<"graph", "style", "line_style", "markers">>

LineStylesPath == <<"graph", "style", "line_style", "line_styles">>

\* a list holds an entry outside the closed set given as a list
HasInvalid(list, closed) == \E k \in 1..Len(list) : list[k] \notin Range(closed)

(***************************************************************************)
(* C11.  A marker outside the valid markers, a line style outside           *)
(* '-', '--', '-.', ':' and an output format outside png, jpg, jpeg, svg,   *)
(* pdf (whatever its letter case) make construction fail, both when         *)
(* LineStyleConfig or OutputConfig is constructed directly and through      *)
(* Config.from_dict, which then returns no Config: the invalid entry is     *)
(* neither dropped nor replaced by a default.                               *)
(***************************************************************************)
\* the raw mapping supplies an invalid marker, line style or format
RawHasInvalidEntry ==
    \/ HasPath(raw, MarkersPath, 1)
          /\ HasInvalid(Lookup(raw, MarkersPath, 1), valid_markers)
    \/ HasPath(raw, LineStylesPath, 1)
          /\ HasInvalid(Lookup(raw, LineStylesPath, 1), valid_line_styles)
    \/ HasPath(raw, <<"output", "format">>, 1)
          /\ Lower(Lookup(raw, <<"output", "format">>, 1)) \notin Range(valid_formats)

C11_EnumeratedFieldsChecked ==
    /\ (Constructor("LineStyleConfig")
          /\ (HasInvalid(call.markers, valid_markers)
                 \/ HasInvalid(call.line_styles, valid_line_styles)))
       => call.result = Raise("ValueError")
    /\ (Constructor("OutputConfig") /\ Lower(call.format) \notin Range(valid_formats))
       => call.result = Raise("ValueError")
    /\ (Loaded /\ RawHasInvalidEntry) => cfg.status = "raised"

\* from_dict on a mapping whose markers are a valid one and an invalid one
C11_Witness ==
    /\ Loaded
    /\ Supplies(MarkersPath, <<"o", "?">>)
    /\ Supplies(LineStylesPath, <<"--", ":">>)
    /\ cfg = Raise("ValueError")

(***************************************************************************)
(* C12.  Config.from_dict returns no Config when a numeric field that must  *)
(* be positive is zero or negative: output.dpi, style.width, style.height,  *)
(* the three font sizes, line_width, marker_size.  (The claim as stated;    *)
(* only line_width and marker_size are checked by the code.)                *)
(***************************************************************************)
PositiveFields ==
    {<<"output", "dpi">>, <<"graph", "style", "width">>, <<"graph", "style", "height">>,
     <<"graph", "style", "fonts", "title_size">>,
     <<"graph", "style", "fonts", "label_size">>,
     <<"graph", "style", "fonts", "legend_size">>,
     <<"graph", "style", "line_style", "line_width">>,
     <<"graph", "style", "line_style", "marker_size">>}

C12_NonPositiveRejected ==
    (Loaded /\ \E p \in PositiveFields : HasPath(raw, p, 1) /\ Lookup(raw, p, 1) <= 0)
    => cfg.status = "raised"

(***************************************************************************)
(* C13.  LineStyleConfig(...) fails whenever line_width <= 0 or             *)
(* marker_size <= 0, zero included, and succeeds, keeping its arguments,    *)
(* for every strictly positive pair with valid markers and line styles.     *)
(***************************************************************************)
C13_WidthAndSizePositive ==
    Constructor("LineStyleConfig")
    => /\ (call.line_width <= 0 \/ call.marker_size <= 0)
          => call.result = Raise("ValueError")
       /\ (/\ call.line_width > 0
           /\ call.marker_size > 0
           /\ ~HasInvalid(call.markers, valid_markers)
           /\ ~HasInvalid(call.line_styles, valid_line_styles))
          => /\ call.result.status = "ok"
             /\ call.result.value.line_width = call.line_width
             /\ call.result.value.marker_size = call.marker_size
             /\ call.result.value.markers = call.markers
             /\ call.result.value.line_styles = call.line_styles

\* a zero line width with everything else valid
C13_Witness ==
    /\ Constructor("LineStyleConfig")
    /\ call.line_width = 0
    /\ call.marker_size = 6
    /\ call.markers = <<"o", "s">>
    /\ call.line_styles = <<"-", "--">>
    /\ call.result = Raise("ValueError")

(***************************************************************************)
(* C14.  OutputConfig accepts a format in any letter case and normalizes    *)
(* it: format 'SVG' is accepted and the format field, and the format that   *)
(* to_dict emits, is 'svg'.  (The claim as stated; the code accepts 'SVG'   *)
(* and keeps it as given.)                                                  *)
(***************************************************************************)
C14_FormatNormalized ==
    /\ (Constructor("OutputConfig") /\ call.format = "SVG" /\ call.dpi = 300)
       => (call.result.status = "ok" /\ call.result.value.format = "svg")
    /\ (Loaded /\ Supplies(<<"output", "format">>, "SVG") /\ cfg.status = "ok")
       => cfg.config.output.format = "svg"
    /\ (Len(dumped) = 1 /\ loads = 1 /\ Supplies(<<"output", "format">>, "SVG"))
       => dumped[1].output.format = "svg"

(***************************************************************************)
(* Round trips.  After a to_dict that follows a from_dict, the last element *)
(* of dumped is to_dict(from_dict(raw)).                                    *)
(***************************************************************************)
\* a round trip of the raw mapping has been made
RoundTripped == loads >= 1 /\ Len(dumped) = loads

\* the key paths a raw mapping may hold: the configuration fields and the
\* chart type, which is no field of Config
KeyPaths == Leaves \cup {<<"graph", "type">>}

SourcesPath == <<"data", "sources">>

\* every key of a source entry comes back with its value
EntrySame(given, made) ==
    \A k \in DOMAIN given : k \in DOMAIN made /\ made[k] = given[k]

\* every key of a source entry comes back with its value, a None or empty
\* label as the stem of the file
EntrySameOrDerived(given, made) ==
    \A k \in DOMAIN given :
       /\ k \in DOMAIN made
       /\ made[k] = IF k = "label" /\ given[k] \in {<<>>, NoneLabel}
                    THEN PathStem(given.file)
                    ELSE given[k]

(***************************************************************************)
(* C15 as stated.  For every mapping m that Config.from_dict accepts,       *)
(* every key path explicitly present in m appears in                        *)
(* to_dict(from_dict(m)) with the same value.                               *)
(***************************************************************************)
C15_EveryKeyPathKept ==
    RoundTripped
    => \A p \in KeyPaths :
          HasPath(raw, p, 1)
          => /\ HasPath(dumped[loads], p, 1)
             /\ IF p = SourcesPath
                THEN /\ Len(Lookup(dumped[loads], p, 1)) = Len(Lookup(raw, p, 1))
                     /\ \A i \in 1..Len(Lookup(raw, p, 1)) :
                           EntrySame(Lookup(raw, p, 1)[i], Lookup(dumped[loads], p, 1)[i])
                ELSE Lookup(dumped[loads], p, 1) = Lookup(raw, p, 1)

(***************************************************************************)
(* C15 amended.  For every mapping m that Config.from_dict accepts, every   *)
(* key path of a configuration field explicitly present in m appears in     *)
(* to_dict(from_dict(m)) with the same value, except that a source label    *)
(* given as None or empty appears as the label derived from the file.       *)
(***************************************************************************)
C15_FieldPathsKept ==
    RoundTripped
    => \A p \in Leaves :
          HasPath(raw, p, 1)
          => /\ HasPath(dumped[loads], p, 1)
             /\ IF p = SourcesPath
                THEN /\ Len(Lookup(dumped[loads], p, 1)) = Len(Lookup(raw, p, 1))
                     /\ \A i \in 1..Len(Lookup(raw, p, 1)) :
                           EntrySameOrDerived(Lookup(raw, p, 1)[i],
                                              Lookup(dumped[loads], p, 1)[i])
                ELSE Lookup(dumped[loads], p, 1) = Lookup(raw, p, 1)

\* a first round trip of a mapping with a line width and a source whose
\* label is empty
C15_Witness ==
    /\ loads = 1
    /\ Len(dumped) = 1
    /\ Supplies(<<"graph", "style", "line_style", "line_width">>, 3)
    /\ Supplies(SourcesPath, << [file |-> <<"d", "/", "a", ".", "c">>, label |-> <<>>] >>)
    /\ dumped[1].data.sources = << [file |-> <<"d", "/", "a", ".", "c">>, label |-> <<"a">>] >>
    /\ dumped[1].graph.style.line_style.line_width = 3

(***************************************************************************)
(* C16.  Round-trip idempotence: with R(m) = to_dict(from_dict(m)),         *)
(* R(R(m)) = R(m) for every mapping m that from_dict accepts: from_dict     *)
(* accepts R(m) and the second round trip changes no field.                 *)
(***************************************************************************)
C16_RoundTripIdempotent ==
    /\ (loads >= 2 /\ Len(dumped) >= 1) => cfg.status = "ok"
    /\ \A k \in 2..Len(dumped) : dumped[k] = dumped[k - 1]

\* two round trips of a mapping with no axis bounds, no style lists and a
\* source whose derived label is empty
C16_Witness ==
    /\ loads = 2
    /\ Len(dumped) = 2
    /\ dumped[1].graph.x_axis.min = NoneValue
    /\ dumped[1].graph.style.line_style.markers = FromDictMarkers
    /\ dumped[1].data.sources = << [file |-> <<"/">>, label |-> <<>>] >>
    /\ dumped[2] = dumped[1]

(***************************************************************************)
(* C17.  A data source with an empty file reference always fails            *)
(* construction, whether or not a label is given, through DataSource(...),  *)
(* DataConfig.add_source and Config.from_dict (a source entry without a     *)
(* 'file' key included); from_dict then returns no Config at all.           *)
(***************************************************************************)
\* an entry of data.sources with no file reference
LacksFile(entry) == "file" \notin DOMAIN entry \/ entry.file = <<>>

C17_EmptyFileFails ==
    /\ ((Constructor("DataSource") \/ Constructor("add_source")) /\ call.file = <<>>)
       => call.result = Raise("ValueError")
    /\ (/\ Loaded
        /\ HasPath(raw, SourcesPath, 1)
        /\ \E i \in 1..Len(Lookup(raw, SourcesPath, 1)) :
              /\ \A j \in 1..i : IsMapping(Lookup(raw, SourcesPath, 1)[j])
              /\ LacksFile(Lookup(raw, SourcesPath, 1)[i]))
       => (cfg.status = "raised" /\ "config" \notin DOMAIN cfg)

\* from_dict on a good source followed by an entry with a label and no file
C17_Witness ==
    /\ Loaded
    /\ Supplies(SourcesPath,
                << [file |-> <<"b", ".", "c">>, label |-> <<"B">>], [label |-> <<"L">>] >>)
    /\ cfg = Raise("ValueError")

(***************************************************************************)
(* C18.  Label derivation: a data source built without a label (absent,     *)
(* None or empty) gets the file reference's base name without extension;    *)
(* an explicit non-empty label is kept unchanged; and rebuilding a source   *)
(* from its own (file, label) pair, as a to_dict/from_dict round trip does, *)
(* yields the same label.                                                   *)
(***************************************************************************)
\* the base name without extension of the file references in use
BaseNameWithoutExtension(file) ==
    CASE file = <<"d", "/", "a", ".", "c">> -> <<"a">>
      [] file = <<"/">> -> <<>>
      [] file = <<"x", ".", "t", ".", "g">> -> <<"x", ".", "t">>
      [] file = <<".", "b">> -> <<".", "b">>
      [] file = <<"a", ".">> -> <<"a", ".">>
      [] file = <<"m", ".", "c">> -> <<"m">>
      [] file = <<"n", ".", "c">> -> <<"n">>
      [] file = <<"b", ".", "c">> -> <<"b">>
      [] file = LongName -> LongName

\* the label a source of this file and this given label must have
LabelFor(file, label) ==
    IF label \in {<<>>, NoneLabel} THEN BaseNameWithoutExtension(file) ELSE label

C18_LabelDerivation ==
    /\ (Constructor("DataSource") /\ call.file # <<>>)
       => (/\ call.result.status = "ok"
           /\ call.result.value.file = call.file
           /\ call.result.value.label = LabelFor(call.file, call.label))
    /\ (Constructor("add_source") /\ call.file # <<>>)
       => (/\ call.result.status = "ok"
           /\ call.result.value = << [file |-> call.file,
                                      label |-> LabelFor(call.file, call.label)] >>)
    /\ (Loaded /\ cfg.status = "ok" /\ HasPath(raw, SourcesPath, 1))
       => (/\ Len(cfg.config.data.sources) = Len(Lookup(raw, SourcesPath, 1))
           /\ \A i \in 1..Len(Lookup(raw, SourcesPath, 1)) :
                 /\ cfg.config.data.sources[i].file = Lookup(raw, SourcesPath, 1)[i].file
                 /\ cfg.config.data.sources[i].label =
                       LabelFor(Lookup(raw, SourcesPath, 1)[i].file,
                                Get(Lookup(raw, SourcesPath, 1)[i], "label", NoneLabel))
                 /\ loads >= 2
                    => cfg.config.data.sources[i].label = Lookup(raw, SourcesPath, 1)[i].label)

\* a source rebuilt by a second from_dict from the label derived of a name
\* with two suffixes
C18_Witness ==
    /\ loads = 2
    /\ cfg.status = "ok"
    /\ Lookup(raw, SourcesPath, 1) =
          << [file |-> <<"x", ".", "t", ".", "g">>, label |-> <<"x", ".", "t">>] >>
    /\ cfg.config.data.sources[1].label = <<"x", ".", "t">>

(***************************************************************************)
(* Validation.  The conditions of Config.validate, stated on the Config     *)
(* and on the directories present when the call was made.                   *)
(***************************************************************************)
\* the output path's parent directory
OutputParent == Parent(PurePath(cfg.config.output.save_path))

\* the output path's parent directory is absent and cannot be created
CannotCreateParent(present) ==
    /\ OutputParent \notin present \cup ExistingFiles
    /\ Mkdir(OutputParent, present).raised

\* the indexes of the sources whose file does not exist
MissingSources(present) ==
    {k \in 1..Len(cfg.config.data.sources) :
        PurePath(cfg.config.data.sources[k].file) \notin present \cup ExistingFiles}

\* one entry per violated condition
ViolatedConditions(present) ==
    (IF cfg.config.graph.title = "" THEN {[msg |-> "Graph title is required"]} ELSE {})
    \cup (IF cfg.config.data.sources = <<>>
          THEN {[msg |-> "At least one data source is required"]} ELSE {})
    \cup {[msg |-> "File does not exist", source |-> k - 1,
           file |-> cfg.config.data.sources[k].file] : k \in MissingSources(present)}
    \cup (IF CannotCreateParent(present)
          THEN {[msg |-> "Cannot create output directory"]} ELSE {})

(***************************************************************************)
(* C19.  Config.validate never raises and returns the list of all violated  *)
(* conditions: the title entry iff the title is empty, the no-source entry  *)
(* iff there are no sources, one entry per source whose file does not       *)
(* exist, one entry iff the output path's parent directory cannot be        *)
(* created; and is_valid() is true iff that list is empty.  (The claim as   *)
(* stated; the existence test of a source file or of the parent directory   *)
(* can raise OSError out of validate.)                                      *)
(***************************************************************************)
C19_ValidateCollectsAll ==
    /\ Constructor("validate")
       => (/\ call.result.status = "ok"
           /\ Range(call.result.errors) = ViolatedConditions(call.dirs0)
           /\ Len(call.result.errors) = Cardinality(ViolatedConditions(call.dirs0)))
    /\ Constructor("is_valid")
       => (/\ call.result.status = "ok"
           /\ call.result.valid = (ViolatedConditions(call.dirs0) = {}))

(***************************************************************************)
(* C20.  Config.from_dict resolves a field to its default also when the     *)
(* key of a nested mapping (graph, x_axis, y_axis, style, fonts, grid,      *)
(* line_style, data, output) is present with a null or a scalar, and never  *)
(* fails with an error other than the configuration error ValueError.       *)
(* (The claim as stated; the code calls .get on the null or scalar.)        *)
(***************************************************************************)
\* the key paths where a nested mapping is expected
MappingPaths == {w[1] : w \in WrongShapes}

C20_WrongShapeDefaults ==
    /\ (Loaded /\ cfg.status = "raised") => cfg.error = "ValueError"
    /\ \A p \in MappingPaths :
          (Loaded /\ HasPath(raw, p, 1) /\ ~IsMapping(Lookup(raw, p, 1)))
          => (/\ cfg.status = "ok"
              /\ \A leaf \in Leaves :
                    HasPrefix(p, leaf)
                    => Lookup(cfg.config, leaf, 1) = Lookup(DefaultConfig, leaf, 1))

(***************************************************************************)
(* C21.  Every index is resolvable: for every LineStyleConfig that          *)
(* construction accepts (empty markers or empty line_styles included),      *)
(* every chart type, both cycling modes and every series index, style       *)
(* resolution in create_graph yields a defined style and a figure.  Stated  *)
(* for a non-empty batch of plottable sources.  (The claim as stated; an    *)
(* empty line_styles list under auto_cycle breaks it.)                      *)
(***************************************************************************)
\* the style of a drawn series is defined: a valid line style for a line, a
\* valid marker for a scatter series, a valid marker or none for a line
DefinedStyle(artist) ==
    CASE artist.kind = "line" ->
            /\ artist.linestyle \in Range(valid_line_styles)
            /\ artist.marker \in Range(valid_markers) \cup {"None"}
      [] artist.kind = "scatter" -> artist.marker \in Range(valid_markers)
      [] OTHER -> TRUE

C21_EveryIndexResolvable ==
    (/\ Returned
     /\ call.op = "create_graph"
     /\ call.graph_type \in ChartTypes
     /\ call.style_config.kind = "StyleConfig"
     /\ ~LineStyleRaises(call.style_config.line_style)
     /\ call.data_sources # <<>>
     /\ AllPlottable(call.data_sources))
    => /\ call.result # None
       /\ Len(axes.artists) = Len(call.data_sources)
       /\ \A k \in 1..Len(axes.artists) : DefinedStyle(axes.artists[k])

(***************************************************************************)
(* C22.  The resolved configuration fully determines the figure-level       *)
(* rendering parameters: the grid is shown iff style.grid.show is true, the *)
(* title and axis-label font sizes are the configured ones, and the figure  *)
(* is style.width by style.height.  (The claim as stated; create_graph      *)
(* hard-codes the font sizes and the grid.)                                 *)
(***************************************************************************)
C22_ConfigDeterminesFigure ==
    (/\ Returned
     /\ call.op = "create_graph"
     /\ call.style_config.kind = "StyleConfig"
     /\ call.result # None)
    => /\ axes.figsize = <<call.style_config.width, call.style_config.height>>
       /\ axes.grid = call.style_config.grid.show
       /\ axes.title_fontsize = call.style_config.fonts.title_size
       /\ axes.label_fontsize = call.style_config.fonts.label_size

(***************************************************************************)
(* C23.  save_graph with no explicit format infers the format from the      *)
(* output path's extension, lower-cased, and uses 'png' both when the path  *)
(* has no extension and when the extension is not one of png, jpg, jpeg,    *)
(* svg, pdf; an explicit format always takes precedence.  (The claim as     *)
(* stated; an extension outside the formats is handed to the backend.)      *)
(***************************************************************************)
\* the extension, lower-cased, of the output paths in use
ExtensionOf(output_path) ==
    CASE output_path = <<"o", ".", "P", "N", "G">> -> <<"p", "n", "g">>
      [] output_path = <<"o">> -> <<>>
      [] output_path = <<"o", ".", "t", "x", "t">> -> <<"t", "x", "t">>
      [] output_path = <<"o", ".", "e", "p", "s">> -> <<"e", "p", "s">>
      [] output_path = <<"n", "/", "o", ".", "p", "d", "f">> -> <<"p", "d", "f">>
      [] output_path = <<"/", "r", "o", "/", "x", "/", "g", ".", "p", "n", "g">>
            -> <<"p", "n", "g">>
      [] output_path = <<"/", "r", "o", "/", "g", ".", "p", "n", "g">> -> <<"p", "n", "g">>
      [] output_path = <<"d", "/", "a", ".", "c", "/", "g", ".", "s", "v", "g">>
            -> <<"s", "v", "g">>
      [] output_path = <<".", "h">> -> <<>>

\* the enumerated formats, 'png' first
EnumeratedFormats ==
    {<<"p", "n", "g">>, <<"j", "p", "g">>, <<"j", "p", "e", "g">>, <<"s", "v", "g">>,
     <<"p", "d", "f">>}

C23_FormatInferred ==
    (Constructor("save_graph") /\ call.figure # None /\ call.result.status = "ok")
    => call.savefig = IF call.format # NoneFormat THEN call.format
                      ELSE IF ExtensionOf(call.output_path) \in EnumeratedFormats
                      THEN ExtensionOf(call.output_path)
                      ELSE <<"p", "n", "g">>

(***************************************************************************)
(* C30.  save_graph reports every outcome through its return value: True    *)
(* when the file was written and False otherwise (no figure, output         *)
(* directory that cannot be created, backend write failure), and it never   *)
(* raises; with figure None it returns False without creating the output    *)
(* directory.  (The claim as stated; a directory that cannot be created     *)
(* makes save_graph raise.)                                                 *)
(***************************************************************************)
C30_SaveReportsOutcome ==
    Constructor("save_graph")
    => /\ call.result.status = "ok"
       /\ call.result.value = (\E f \in written : f.path = PurePath(call.output_path))
       /\ call.figure = None => (call.result.value = FALSE /\ dirs = call.dirs0)

(***************************************************************************)
(* C24.  load_multiple_csvs returns exactly one (label, table) entry per    *)
(* source that loaded successfully, in source order: of n sources of which  *)
(* k load, the result has k entries, and the batch rendered from it has one *)
(* series per loaded source.  (The claim as stated; two sources with one    *)
(* label break it.)                                                         *)
(***************************************************************************)
\* the source names a CSV file that load_csv reads into a table
LoadsOk(source) ==
    /\ "file" \in DOMAIN source
    /\ FileSystem(source.file).exists
    /\ FileSystem(source.file).bytes > 0
    /\ FileSystem(source.file).ncols >= 2

\* the sources of the configuration that load, in source order
LoadedSources == SelectSeq(ConfigSources(call.config), LoadsOk)

C24_OneEntryPerLoadedSource ==
    (Returned /\ call.op = "create_graph_from_config")
    => /\ Len(call.data_sources) = Len(LoadedSources)
       /\ \A k \in 1..Len(LoadedSources) :
             call.data_sources[k].label =
                Get(LoadedSources[k], "label", LoadedSources[k].file)
       /\ call.result # None => Len(axes.artists) = Len(LoadedSources)

(***************************************************************************)
(* C29.  create_graph_from_config, given a configuration mapping whose      *)
(* graph.style section is a non-empty mapping (width and height) and whose  *)
(* sources load, returns a figure styled by that section, as it returns a   *)
(* figure when the style section is absent.  Stated for a supported chart   *)
(* type and sources that all load with rows.  (The claim as stated; the     *)
(* raw style mapping has no attributes.)                                    *)
(***************************************************************************)
\* every source of the configuration loads into a table with rows
AllSourcesLoad ==
    /\ ConfigSources(call.config) # <<>>
    /\ \A k \in 1..Len(ConfigSources(call.config)) :
          /\ LoadsOk(ConfigSources(call.config)[k])
          /\ FileSystem(ConfigSources(call.config)[k].file).nrows > 0

C29_StyleSectionRendered ==
    (/\ Returned
     /\ call.op = "create_graph_from_config"
     /\ call.graph_type \in ChartTypes
     /\ AllSourcesLoad)
    => /\ call.result # None
       /\ DOMAIN call.style_config.items # {}
          => axes.figsize = <<call.style_config.items.width,
                              call.style_config.items.height>>

(***************************************************************************)
(* C27.  No style state crosses invocations: after any sequence of earlier  *)
(* create_graph calls on the same GraphBuilder, successful or failed, a     *)
(* further call that draws assigns its series exactly the styles a fresh    *)
(* GraphBuilder assigns for the same inputs; the cycle position restarts at *)
(* index 0, so the first series of an auto-cycled line chart takes the      *)
(* first marker and the first line style.                                   *)
(***************************************************************************)
\* a GraphBuilder on which no call was made
FreshBuilder == [fig |-> None, ax |-> None, axes |-> NoAxes, nfigs |-> 0, result |-> None]

\* the axes a fresh GraphBuilder holds after the call
FreshAxes ==
    create_graph(FreshBuilder, call.data_sources, call.graph_type, call.style_config).axes

C27_NoStyleCrossesCalls ==
    Created
    => /\ axes.artists = FreshAxes.artists
       /\ axes.cycle = FreshAxes.cycle
       /\ axes.idx = FreshAxes.idx
       /\ (/\ LineCall(TRUE)
           /\ Len(Markers) > 0
           /\ Len(LineStyles) > 0
           /\ Len(axes.artists) > 0)
          => StyleOf(axes.artists[1]) = <<Markers[1], LineStyles[1]>>

\* a second call that draws one auto-cycled line on a builder whose first
\* call drew a figure
C27_Witness ==
    /\ ncalls = 2
    /\ call.nfigs0 = 1
    /\ nfigs = 2
    /\ LineCall(TRUE)
    /\ Markers = <<"o", "s">>
    /\ Len(axes.artists) = 1
    /\ StyleOf(axes.artists[1]) = <<"o", "-">>

(***************************************************************************)
(* C28.  After any sequence of DataConfig.add_source calls, successful or   *)
(* failing, the sources list holds exactly the successfully added sources   *)
(* in call order, every one with a non-empty file and a non-empty label; a  *)
(* failing add_source (empty file) leaves the list unchanged.  (The claim   *)
(* as stated; a file reference without a base name breaks it.)              *)
(***************************************************************************)
\* the add_source calls that did not fail, in call order
SuccessfulAdds == SelectSeq(log, LAMBDA e : ~e.raised)

C28_SourcesAreTheSuccessfulAdds ==
    /\ \A k \in 1..Len(log) : log[k].raised <=> log[k].file = <<>>
    /\ Len(data_config) = Len(SuccessfulAdds)
    /\ \A k \in 1..Len(SuccessfulAdds) :
          /\ data_config[k].file = SuccessfulAdds[k].file
          /\ SuccessfulAdds[k].label \notin {<<>>, NoneLabel}
             => data_config[k].label = SuccessfulAdds[k].label
    /\ \A k \in 1..Len(data_config) :
          data_config[k].file # <<>> /\ data_config[k].label # <<>>

(***************************************************************************)
(* C25.  load_string and load_file reject every input whose top level does  *)
(* not parse to a mapping (a list, a scalar, an empty document) as well as  *)
(* malformed input, by raising the format error; a rejected load leaves the *)
(* stored data as it was after the last successful load, so get_value keeps *)
(* answering from the earlier document.  (The claim as stated; a file that  *)
(* is no UTF-8 text breaks it.)                                             *)
(***************************************************************************)
\* the texts that are a list, a scalar or an empty document, and the ones
\* that are no YAML at all
NotAMapping == {"- 1", "- 1\n", "5", ""}
Malformed == {"a: [", "a: b: c"}

\* a load whose input exists (a text, or a file as it is at the load) and is
\* malformed or no mapping
InputRejected(entry) ==
    /\ entry.input.exists
    /\ \/ ~entry.input.utf8
       \/ entry.input.text \in NotAMapping \cup Malformed

\* the data after the last successful load, None before the first
RECURSIVE LastLoaded(_)
LastLoaded(entries) ==
    IF entries = <<>>
    THEN NoData
    ELSE LET last == entries[Len(entries)]
         IN IF last.raised
            THEN LastLoaded(SubSeq(entries, 1, Len(entries) - 1))
            ELSE SafeLoad(last.input.text).value

C25_RejectedLoadsKeepData ==
    /\ \A k \in 1..Len(log) :
          /\ InputRejected(log[k]) => (log[k].raised /\ log[k].error = "YAMLError")
          /\ log[k].raised => LastLoaded(SubSeq(log, 1, k)) = log[k].before
    /\ parser = LastLoaded(log)
    /\ call.op = "get_value"
       => call.result.value = get_value(LastLoaded(log), call.key_path, call.default)

(***************************************************************************)
(* C26.  main returns 0 exactly when the configuration file is parsed, a    *)
(* figure is created and the figure is saved; in every other run (parse     *)
(* failure, no figure, save_graph returning False, an exception raised in   *)
(* between) it returns 1, and no exception leaves it.                       *)
(***************************************************************************)
\* the input file exists and parses to a mapping
InputParsed(input) ==
    input.exists /\ input.utf8 /\ ~input.yaml.raised /\ input.yaml.value.kind = "dict"

\* where the configuration of the input file has the image written
SavePathOf(input) ==
    PurePath(Get(Get(input.yaml.value.items, "output", EmptyDict), "save_path",
                 default_save_path))

\* the run wrote the image of the input's configuration
ImageSaved(input) ==
    /\ InputParsed(input)
    /\ \E f \in written : f.path = SavePathOf(input)

C26_ExitCodeTellsSuccess ==
    (call.op = "main" /\ call.status = "returned")
    => /\ call.result \in {0, 1}
       /\ call.result = 0
          <=> (InputParsed(call.input) /\ call.figure # None /\ ImageSaved(call.input))

C26_Witness ==
    /\ call.op = "main"
    /\ call.status = "returned"
    /\ call.result = 0
    /\ ImageSaved(call.input)
    /\ "output" \notin DOMAIN call.input.yaml.value.items

====
